---- MODULE Spec2Model ----
(***************************************************************************)
(* TrendsQL / TrendsQL-KG: the SQL safety check, the sanitizer, and the    *)
(* HTTP request paths that hand SQL text to the database.                  *)
(*                                                                         *)
(* A SQL text is a sequence of atoms.  An atom is a short Python string:   *)
(* one run of word characters ("SELECT", "drop", "t", "10"), one           *)
(* whitespace character (" ", "\n") or one punctuation character ("'",     *)
(* ";", "-", "/", "*", "(", ")").  The Python string an atom sequence      *)
(* stands for is the concatenation of its atoms.  Two adjacent word atoms  *)
(* form one longer word, so a regex word boundary \b lies between two      *)
(* neighbours exactly when one of them is a word atom and the other is     *)
(* not.  No atom of the alphabets below is a proper fragment of a keyword  *)
(* the code searches for, so a search of the Python string finds a keyword *)
(* exactly where an atom equals it.                                        *)
(***************************************************************************)
EXTENDS Integers, Sequences, FiniteSets, TLC

VARIABLES
    text,       \* the text a caller passes in: a SQL text, or the reply of the
                \* language model to a prompt
    pc,         \* which function or endpoint has been applied last
    san,        \* sanitize_sql(text)
    san2,       \* sanitize_sql(sanitize_sql(text))
    verdict,    \* the (is_safe, error_message) tuple returned last
    components, \* trendsql_kg app.py: the globals schema_introspector and
                \* pagination_helper
    executed,   \* the query texts the request handed to cursor.execute, in
                \* order
    accepted,   \* the texts on which the safety check returned True during
                \* the request
    response,   \* the endpoint that answered and its HTTP status
    page_request, \* the (page, page_size) passed to add_pagination last
    paginated,  \* add_pagination(text, page, page_size)
    repaginated, \* add_pagination applied to its own output
    count_query, \* create_count_query(text)
    validated,  \* the (page, page_size) validate_pagination_params returned
    extracted,  \* extract_sql_from_code_block(text)
    calls,      \* the calls of the sanitizer, the safety check, the rewriters
                \* and cursor.execute the request made, in order
    variant,    \* text with the case of some of its letters changed
    variant_verdict, \* the (is_safe, error_message) tuple returned for variant
    checker,    \* trendsql_kg sql_safety.py: the global sql_safety_checker
    parser,     \* what sqlparse answers about each text
    requests,   \* the concurrent requests: the text of each, how far it has
                \* come and the verdicts it was returned
    max_rows,   \* request.max_rows of POST /download-csv, 0 for another request
    sql_response, \* the SQLResponse of trendsql_kg POST /generate-sql, and the
                \* attempts to execute the request made
    ingest      \* one call of a connector's ingest_data: its position, its
                \* counters, the calls made on db_conn and the table's rows

vars == <<text, pc, san, san2, verdict, components, executed, accepted, response,
          page_request, paginated, repaginated, count_query, validated, extracted, calls,
          variant, variant_verdict, checker, parser, requests, max_rows,
          sql_response, ingest>>

http == <<components, executed, accepted, response>>

rewriter == <<page_request, paginated, repaginated, count_query>>

concurrent == <<checker, parser, requests>>

extras == <<validated, extracted, calls, variant, variant_verdict, concurrent, max_rows,
            sql_response, ingest>>


(***************************************************************************)
(* Python string primitives on atom sequences.                             *)
(***************************************************************************)

\* The word atoms: runs of [A-Za-z0-9_].
WordAtoms ==
    { "SELECT", "select", "SeLeCt", "WITH", "EXPLAIN", "FROM", "AS", "WHERE",
      "INSERT", "UPDATE", "DELETE", "DROP", "drop", "TRUNCATE", "ALTER",
      "CREATE", "REINDEX", "VACUUM", "GRANT", "REVOKE", "EXEC", "EXECUTE",
      "CALL", "DO", "do", "COPY", "BEGIN", "COMMIT", "ROLLBACK",
      "UNION", "ALL", "TABLE", "LIMIT", "limit", "OFFSET", "offset",
      "ORDER", "BY",
      "COUNT", "count", "foo", "FOO", "t", "T", "x", "X",
      "as", "total", "TOTAL", "count_query", "COUNT_QUERY",
      "count_subquery", "COUNT_SUBQUERY", "sql", "SQL", "exec" }

\* The decimal numbers the texts hold: runs of [0-9].
DigitAtoms == { "0", "1", "2", "3", "4", "5", "6", "10", "20", "25", "50", "1000" }

\* str.upper() on a single atom.
CaseMap ==
    { <<"select", "SELECT">>, <<"SeLeCt", "SELECT">>, <<"drop", "DROP">>,
      <<"do", "DO">>, <<"limit", "LIMIT">>, <<"count", "COUNT">>,
      <<"foo", "FOO">>, <<"t", "T">>, <<"x", "X">>, <<"as", "AS">>,
      <<"total", "TOTAL">>, <<"count_query", "COUNT_QUERY">>,
      <<"count_subquery", "COUNT_SUBQUERY">>, <<"sql", "SQL">>,
      <<"offset", "OFFSET">>, <<"exec", "EXEC">> }

str_upper(a) ==
    IF \E p \in CaseMap : p[1] = a
    THEN (CHOOSE p \in CaseMap : p[1] = a)[2]
    ELSE a

\* str.lower() on a single atom (only the atoms used as function names).
str_lower(a) ==
    IF a = "COUNT" THEN "count"
    ELSE IF a = "FOO" THEN "foo"
    ELSE a

\* str.upper() left out: the text is searched as it was written
upper_omitted(s) == s

upper(s) == [i \in 1..Len(s) |-> str_upper(s[i])]

IsWord(a) == a \in WordAtoms \cup DigitAtoms

\* \d+ of the re module, on one atom.
IsDigits(a) == a \in DigitAtoms

\* \s of the re module.
IsSpace(a) == a \in {" ", "\n", "\t"}

RECURSIVE lstrip(_)
lstrip(s) ==
    IF s # <<>> /\ IsSpace(Head(s)) THEN lstrip(Tail(s)) ELSE s

RECURSIVE rstrip(_)
rstrip(s) ==
    IF s # <<>> /\ IsSpace(s[Len(s)])
    THEN rstrip(SubSeq(s, 1, Len(s) - 1))
    ELSE s

strip(s) == rstrip(lstrip(s))

\* \b before and after the atom at position i.
WordBoundaryBefore(s, i) == i = 1 \/ ~IsWord(s[i - 1])
WordBoundaryAfter(s, i) == i = Len(s) \/ ~IsWord(s[i + 1])

\* The atom at i is a whole word: \b<atom>\b.
WholeWordAt(s, i) ==
    /\ IsWord(s[i])
    /\ WordBoundaryBefore(s, i)
    /\ WordBoundaryAfter(s, i)

\* A two-character marker made of single-character atoms, e.g. '--' or '/*'.
PairAt(s, i, a, b) == i + 1 <= Len(s) /\ s[i] = a /\ s[i + 1] = b
HasPair(s, a, b) == \E i \in 1..Len(s) : PairAt(s, i, a, b)

(***************************************************************************)
(* trendsql/app/sql_safety.py                                              *)
(***************************************************************************)

None == [tag |-> "None"]
Str(parts) == [tag |-> "str", parts |-> parts]

\* r'\b(INSERT|UPDATE|DELETE|DROP|TRUNCATE|ALTER|CREATE|REINDEX|VACUUM|GRANT|REVOKE)\b'
DangerousPattern1 ==
    { "INSERT", "UPDATE", "DELETE", "DROP", "TRUNCATE", "ALTER", "CREATE",
      "REINDEX", "VACUUM", "GRANT", "REVOKE" }

\* r'\b(EXEC|EXECUTE|EXECUTE IMMEDIATE)\b'
DangerousPattern2 == { "EXEC", "EXECUTE" }

\* The second group of r'\b(UNION ALL|UNION)\b.*\b(SELECT|INSERT|UPDATE|DELETE)\b'
UnionFollowers == { "SELECT", "INSERT", "UPDATE", "DELETE" }

\* re.search of a \b(K1|K2|...)\b pattern: the positions where it matches.
KeywordMatches(u, kws) ==
    { i \in 1..Len(u) : u[i] \in kws /\ WholeWordAt(u, i) }

\* '.*' does not cross a newline: no "\n" strictly between i and j.
SameLine(u, i, j) == \A k \in (i + 1)..(j - 1) : u[k] # "\n"

\* A follower keyword after position i on the same line, as \b.*\b(...)\b.
FollowerAfter(u, i) ==
    \E j \in (i + 1)..Len(u) :
        /\ u[j] \in UnionFollowers
        /\ WholeWordAt(u, j)
        /\ SameLine(u, i, j)

\* The positions where the UNION pattern matches (as 'UNION').
UnionMatches(u) ==
    { i \in 1..Len(u) :
        /\ u[i] = "UNION"
        /\ WholeWordAt(u, i)
        /\ FollowerAfter(u, i) }

\* The alternative 'UNION ALL' is tried first at the leftmost match.
UnionAllAt(u, i) ==
    /\ i + 2 <= Len(u)
    /\ u[i + 1] = " "
    /\ u[i + 2] = "ALL"
    /\ WordBoundaryAfter(u, i + 2)
    /\ FollowerAfter(u, i + 2)

Min(S) == CHOOSE m \in S : \A n \in S : m <= n

\* The same without the message.
NoMessage(kw) == None

\* f"SQL contains forbidden keyword: {...group(1)}"
ForbiddenKeyword(kw) == Str(<<"SQL contains forbidden keyword: ", kw>>)

\* The same without the \b that ends the pattern.
allowed_start_no_boundary(sql_upper) ==
    /\ sql_upper # <<>>
    /\ sql_upper[1] \in {"WITH", "SELECT", "EXPLAIN"}

\* re.match(r'^(WITH|SELECT|EXPLAIN)\b', sql_upper)
allowed_start(sql_upper) ==
    /\ sql_upper # <<>>
    /\ sql_upper[1] \in {"WITH", "SELECT", "EXPLAIN"}
    /\ WordBoundaryAfter(sql_upper, 1)

ensure_safe_select(sql) ==
    LET sql_upper == upper(strip(sql))
        m1 == KeywordMatches(sql_upper, DangerousPattern1)
        m2 == KeywordMatches(sql_upper, DangerousPattern2)
        m3 == UnionMatches(sql_upper)
    IN  IF m1 # {}
        THEN [safe |-> FALSE, reason |-> ForbiddenKeyword(sql_upper[Min(m1)])]
        ELSE IF m2 # {}
        THEN [safe |-> FALSE, reason |-> ForbiddenKeyword(sql_upper[Min(m2)])]
        ELSE IF m3 # {}
        THEN [safe |-> FALSE,
              reason |-> ForbiddenKeyword(
                  IF UnionAllAt(sql_upper, Min(m3)) THEN "UNION ALL" ELSE "UNION")]
        ELSE IF ~allowed_start(sql_upper)
        THEN [safe |-> FALSE,
              reason |-> Str(<<"SQL must start with SELECT, WITH, or EXPLAIN">>)]
        ELSE IF \E i \in 1..Len(sql) : sql[i] = ";"
        THEN [safe |-> FALSE,
              reason |-> Str(<<"Multiple statements not allowed (semicolon detected)">>)]
        ELSE IF HasPair(sql, "-", "-") \/ HasPair(sql, "/", "*")
        THEN [safe |-> FALSE, reason |-> Str(<<"Comments not allowed in SQL">>)]
        ELSE [safe |-> TRUE, reason |-> None]

\* The rest of the line from its first "\n" on ('.*$' under re.MULTILINE).
RECURSIVE FromNewline(_)
FromNewline(s) ==
    IF s = <<>> \/ Head(s) = "\n" THEN s ELSE FromNewline(Tail(s))

\* The same with only the marker removed: re.sub(r'--', '', sql).
RECURSIVE RemoveLineCommentMarkers(_)
RemoveLineCommentMarkers(s) ==
    IF s = <<>> THEN <<>>
    ELSE IF PairAt(s, 1, "-", "-") THEN RemoveLineCommentMarkers(Tail(Tail(s)))
    ELSE <<Head(s)>> \o RemoveLineCommentMarkers(Tail(s))

\* re.sub(r'--.*$', '', sql, flags=re.MULTILINE)
RECURSIVE RemoveLineComments(_)
RemoveLineComments(s) ==
    IF s = <<>> THEN <<>>
    ELSE IF PairAt(s, 1, "-", "-") THEN RemoveLineComments(FromNewline(s))
    ELSE <<Head(s)>> \o RemoveLineComments(Tail(s))

\* Where the first '*/' at or after position i starts, 0 when there is none.
FirstClose(s, i) ==
    LET C == { j \in i..Len(s) : PairAt(s, j, "*", "/") }
    IN  IF C = {} THEN 0 ELSE Min(C)

\* re.sub(r'/\*.*?\*/', '', sql, flags=re.DOTALL)
RECURSIVE RemoveBlockComments(_)
RemoveBlockComments(s) ==
    IF s = <<>> THEN <<>>
    ELSE IF PairAt(s, 1, "/", "*") /\ FirstClose(s, 3) # 0
    THEN RemoveBlockComments(SubSeq(s, FirstClose(s, 3) + 2, Len(s)))
    ELSE <<Head(s)>> \o RemoveBlockComments(Tail(s))

\* re.sub(r'\s+', ' ', sql)
RECURSIVE CollapseWhitespace(_)
CollapseWhitespace(s) ==
    IF s = <<>> THEN <<>>
    ELSE IF IsSpace(Head(s)) THEN <<" ">> \o CollapseWhitespace(lstrip(s))
    ELSE <<Head(s)>> \o CollapseWhitespace(Tail(s))

sanitize_sql(sql) ==
    strip(CollapseWhitespace(RemoveBlockComments(RemoveLineComments(sql))))

(***************************************************************************)
(* trendsql_kg/app/sql_safety.py.  The class parses the text with the      *)
(* third-party sqlparse library; what that library answers about a text    *)
(* (how many statements, the type of the first token, the type of each     *)
(* later token, whether it raises) is an input of the check, one of        *)
(* ParseAnswers.  Everything the module computes itself is computed here.  *)
(***************************************************************************)

\* SQLSafetyChecker.DANGEROUS_KEYWORDS, upper-cased (the regex ignores case).
DANGEROUS_KEYWORDS ==
    { "CREATE", "DROP", "ALTER", "TRUNCATE", "RENAME", "COMMENT",
      "INSERT", "UPDATE", "DELETE", "MERGE", "UPSERT",
      "BEGIN", "COMMIT", "ROLLBACK", "SAVEPOINT", "RELEASE",
      "GRANT", "REVOKE", "EXECUTE", "CALL", "DO",
      "COPY", "IMPORT", "EXPORT",
      "VACUUM", "ANALYZE", "REINDEX", "CLUSTER",
      "PG_READ_FILE", "PG_WRITE_FILE", "PG_LS_DIR" }

\* SQLSafetyChecker.ALLOWED_FUNCTIONS
ALLOWED_FUNCTIONS ==
    { "count", "sum", "avg", "min", "max", "stddev", "variance",
      "coalesce", "nullif", "greatest", "least",
      "extract", "date_trunc", "now", "current_date", "current_timestamp",
      "to_char", "to_date", "to_timestamp",
      "upper", "lower", "trim", "length", "substring", "replace",
      "round", "ceil", "floor", "abs", "power", "sqrt",
      "random", "row_number", "rank", "dense_rank", "lag", "lead",
      "first_value", "last_value", "nth_value",
      "array_agg", "string_agg", "json_agg", "jsonb_agg",
      "json_build_object", "jsonb_build_object",
      "unnest", "generate_series",
      "similarity", "levenshtein", "soundex",
      "pg_trgm", "word_similarity" }

\* <c>\s*$ under re.MULTILINE: c, then whitespace up to the end of the text
\* or up to a newline.
EndsLineAfter(s, i) ==
    \/ \A k \in (i + 1)..Len(s) : IsSpace(s[k])
    \/ \E j \in (i + 1)..Len(s) :
          /\ s[j] = "\n"
          /\ \A k \in (i + 1)..(j - 1) : IsSpace(s[k])

\* <word>\s*\( : the word, optional whitespace, an opening parenthesis.
CallAfter(s, i) ==
    \E j \in (i + 1)..Len(s) :
        /\ s[j] = "("
        /\ \A k \in (i + 1)..(j - 1) : IsSpace(s[k])

\* dangerous_regex.search(sql), the regex compiled in __init__ from the
\* keywords and the fixed patterns
dangerous_regex_search(keywords, s) ==
    LET u == upper(s)
    IN  \/ KeywordMatches(u, keywords) # {}
        \/ HasPair(s, "-", "-")
        \/ \E i \in 1..Len(s) : PairAt(s, i, "/", "*") /\ FirstClose(s, i + 2) # 0
        \/ \E i \in 1..Len(s) : s[i] = ";" /\ EndsLineAfter(s, i)
        \/ \E i \in 1..Len(s) : s[i] = "\\" /\ EndsLineAfter(s, i)
        \/ \E i \in 1..Len(s) : u[i] \in {"XP_CMDSHELL", "SP_EXECUTESQL"}
        \/ \E i \in 1..Len(s) : u[i] \in {"EXEC", "EXECUTE"} /\ CallAfter(s, i)

\* SQLSafetyChecker._has_dangerous_patterns: dangerous_regex.search(sql)
has_dangerous_patterns(s) == dangerous_regex_search(DANGEROUS_KEYWORDS, s)

\* The global instance sql_safety_checker = SQLSafetyChecker(): __init__
\* builds dangerous_patterns and dangerous_regex from DANGEROUS_KEYWORDS.
sql_safety_checker == [dangerous_keywords |-> DANGEROUS_KEYWORDS]

\* SQLSafetyChecker._normalize_sql
normalize_sql(sql) == RemoveBlockComments(RemoveLineComments(strip(sql)))

\* What sqlparse may answer about a text.
ParseAnswers ==
    { "raises", "no_statement", "first_token_not_keyword", "dangerous_token",
      "several_statements", "one_clean_statement" }

\* SQLSafetyChecker._is_select_query: the first non-whitespace token is of
\* type Keyword and its value is SELECT or WITH.
is_select_query(s, lib) ==
    LET u == upper(lstrip(s))
    IN  /\ lib \notin {"no_statement", "first_token_not_keyword"}
        /\ u # <<>>
        /\ u[1] \in {"SELECT", "WITH"}
        /\ WordBoundaryAfter(u, 1)

\* An exception that leaves the function instead of a return value.
Raise(e) == [exception |-> e]

\* The same without the try / except around the parsing.
check_sql_safety_uncaught(sql, lib) ==
    IF strip(sql) = <<>>
    THEN [safe |-> FALSE, reason |-> Str(<<"Empty SQL query">>)]
    ELSE IF has_dangerous_patterns(normalize_sql(sql))
    THEN [safe |-> FALSE, reason |-> Str(<<"Query contains dangerous SQL patterns">>)]
    ELSE IF lib = "raises"
    THEN Raise("e")
    ELSE IF lib = "no_statement"
    THEN [safe |-> FALSE, reason |-> Str(<<"Unable to parse SQL query">>)]
    ELSE IF ~is_select_query(normalize_sql(sql), lib)
    THEN [safe |-> FALSE, reason |-> Str(<<"Only SELECT queries are allowed">>)]
    ELSE IF lib = "dangerous_token"
    THEN [safe |-> FALSE, reason |-> Str(<<"Query contains dangerous SQL tokens">>)]
    ELSE IF lib = "several_statements"
    THEN [safe |-> FALSE, reason |-> Str(<<"Multiple SQL statements are not allowed">>)]
    ELSE [safe |-> TRUE, reason |-> None]

\* SQLSafetyChecker.check_sql_safety
check_sql_safety(sql, lib) ==
    IF strip(sql) = <<>>
    THEN [safe |-> FALSE, reason |-> Str(<<"Empty SQL query">>)]
    ELSE IF has_dangerous_patterns(normalize_sql(sql))
    THEN [safe |-> FALSE, reason |-> Str(<<"Query contains dangerous SQL patterns">>)]
    ELSE IF lib = "raises"
    THEN [safe |-> FALSE, reason |-> Str(<<"SQL parsing error: ", "e">>)]
    ELSE IF lib = "no_statement"
    THEN [safe |-> FALSE, reason |-> Str(<<"Unable to parse SQL query">>)]
    ELSE IF ~is_select_query(normalize_sql(sql), lib)
    THEN [safe |-> FALSE, reason |-> Str(<<"Only SELECT queries are allowed">>)]
    ELSE IF lib = "dangerous_token"
    THEN [safe |-> FALSE, reason |-> Str(<<"Query contains dangerous SQL tokens">>)]
    ELSE IF lib = "several_statements"
    THEN [safe |-> FALSE, reason |-> Str(<<"Multiple SQL statements are not allowed">>)]
    ELSE [safe |-> TRUE, reason |-> None]

\* self.check_sql_safety(sql), the instance self being in any state: the
\* regex searched is the one self holds.
instance_check_sql_safety(self, sql, lib) ==
    IF strip(sql) = <<>>
    THEN [safe |-> FALSE, reason |-> Str(<<"Empty SQL query">>)]
    ELSE IF dangerous_regex_search(self.dangerous_keywords, normalize_sql(sql))
    THEN [safe |-> FALSE, reason |-> Str(<<"Query contains dangerous SQL patterns">>)]
    ELSE IF lib = "raises"
    THEN [safe |-> FALSE, reason |-> Str(<<"SQL parsing error: ", "e">>)]
    ELSE IF lib = "no_statement"
    THEN [safe |-> FALSE, reason |-> Str(<<"Unable to parse SQL query">>)]
    ELSE IF ~is_select_query(normalize_sql(sql), lib)
    THEN [safe |-> FALSE, reason |-> Str(<<"Only SELECT queries are allowed">>)]
    ELSE IF lib = "dangerous_token"
    THEN [safe |-> FALSE, reason |-> Str(<<"Query contains dangerous SQL tokens">>)]
    ELSE IF lib = "several_statements"
    THEN [safe |-> FALSE, reason |-> Str(<<"Multiple SQL statements are not allowed">>)]
    ELSE [safe |-> TRUE, reason |-> None]

\* The instance after a call of check_sql_safety that drops the keywords it
\* has matched from the patterns it holds
instance_after_check_consuming(self, sql) ==
    [self EXCEPT !.dangerous_keywords =
        @ \ { str_upper(sql[i]) : i \in 1..Len(sql) }]

\* The instance after a call of check_sql_safety(sql): no method assigns to
\* self or to the class attributes.
instance_after_check(self, sql) == self

\* sql.split(';')[0]
RECURSIVE BeforeSemicolon(_)
BeforeSemicolon(s) ==
    IF s = <<>> \/ Head(s) = ";" THEN <<>>
    ELSE <<Head(s)>> \o BeforeSemicolon(Tail(s))

\* The last newline of the whitespace run that starts at position i, 0 when
\* the run holds none ('\s*\n' is greedy).
LastNewlineInRun(s, i) ==
    LET N == { j \in i..Len(s) :
                 /\ s[j] = "\n"
                 /\ \A k \in i..j : IsSpace(s[k]) }
    IN  IF N = {} THEN 0 ELSE CHOOSE m \in N : \A n \in N : n <= m

\* re.sub(r'\\\s*\n', ' ', sql)
RECURSIVE RemoveLineContinuations(_)
RemoveLineContinuations(s) ==
    IF s = <<>> THEN <<>>
    ELSE IF Head(s) = "\\" /\ LastNewlineInRun(s, 2) # 0
    THEN <<" ">> \o RemoveLineContinuations(SubSeq(s, LastNewlineInRun(s, 2) + 1, Len(s)))
    ELSE <<Head(s)>> \o RemoveLineContinuations(Tail(s))

\* SQLSafetyChecker.sanitize_sql
kg_sanitize_sql(sql) ==
    RemoveLineContinuations(
        strip(BeforeSemicolon(RemoveBlockComments(RemoveLineComments(sql)))))

\* The backquote character, which a string of this module cannot hold.
Backquote == "<backquote>"

\* A Markdown code fence: three backquotes, the first at position i.
FenceAt(s, i) ==
    /\ i + 2 <= Len(s)
    /\ s[i] = Backquote /\ s[i + 1] = Backquote /\ s[i + 2] = Backquote

\* The newlines of the whitespace run that starts at position i: where the
\* '\s*\n' of the code-block pattern may end.
NewlinesInRun(s, i) ==
    { j \in i..Len(s) : s[j] = "\n" /\ \A k \in i..j : IsSpace(s[k]) }

\* Where the first newline followed by a fence, at or after position i,
\* stands; 0 when there is none.
FirstFenceClose(s, i) ==
    LET C == { k \in i..Len(s) : s[k] = "\n" /\ FenceAt(s, k + 1) }
    IN  IF C = {} THEN 0 ELSE Min(C)

\* The code-block pattern (fence, optional 'sql', \s*\n, (.*?), \n, fence)
\* matched at position i: the positions <<j, k>> of the newline that opens
\* the block and of the newline that closes it; '\s*' is greedy and '.*?' is
\* not.
CodeBlockAt(s, i) ==
    LET a == IF i + 3 <= Len(s) /\ str_upper(s[i + 3]) = "SQL" THEN i + 3 ELSE i + 2
        J == { j \in NewlinesInRun(s, a + 1) : FirstFenceClose(s, j + 1) # 0 }
        j == CHOOSE m \in J : \A n \in J : n <= m
    IN  IF ~FenceAt(s, i) \/ J = {} THEN <<0, 0>>
        ELSE <<j, FirstFenceClose(s, j + 1)>>

\* extract_sql_from_code_block returning match.group(1) without strip()
extract_sql_from_code_block_untrimmed(txt) ==
    LET M == { i \in 1..Len(txt) : CodeBlockAt(txt, i) # <<0, 0>> }
        m == CodeBlockAt(txt, Min(M))
    IN  IF M # {} THEN Str(SubSeq(txt, m[1] + 1, m[2] - 1))
        ELSE IF strip(txt) # <<>> THEN Str(strip(txt))
        ELSE None

\* extract_sql_from_code_block(text): an Optional[str]
extract_sql_from_code_block(txt) ==
    LET M == { i \in 1..Len(txt) : CodeBlockAt(txt, i) # <<0, 0>> }
        m == CodeBlockAt(txt, Min(M))
    IN  IF M # {} THEN Str(strip(SubSeq(txt, m[1] + 1, m[2] - 1)))
        ELSE IF strip(txt) # <<>> THEN Str(strip(txt))
        ELSE None

(***************************************************************************)
(* trendsql/app/llm_sql.py                                                 *)
(***************************************************************************)

\* 'not sql' for an Optional[str]: None or the empty string.
Falsy(sql) == sql = None \/ sql.parts = <<>>

\* LLMSQLGenerator.generate_sql from the content of the model's reply on,
\* without the safety check of the extracted text.
generate_sql_unchecked(content) ==
    LET sql == extract_sql_from_code_block(content)
    IN  IF Falsy(sql) THEN None ELSE sql

\* LLMSQLGenerator.generate_sql from the content of the model's reply on.
generate_sql(content) ==
    LET sql == extract_sql_from_code_block(content)
    IN  IF Falsy(sql) THEN None
        ELSE IF ~ensure_safe_select(sql.parts).safe THEN None
        ELSE sql

(***************************************************************************)
(* trendsql/app/pagination.py                                              *)
(***************************************************************************)

\* str.rfind of a keyword: the last position where an atom equals it, 0 when
\* there is none.
rfind(u, kw) ==
    LET P == { i \in 1..Len(u) : u[i] = kw }
    IN  IF P = {} THEN 0 ELSE CHOOSE m \in P : \A n \in P : n <= m

\* sql_upper.rfind('ORDER BY')
rfind_order_by(u) ==
    LET P == { i \in 1..Len(u) :
                 i + 2 <= Len(u) /\ u[i] = "ORDER" /\ u[i + 1] = " " /\ u[i + 2] = "BY" }
    IN  IF P = {} THEN 0 ELSE CHOOSE m \in P : \A n \in P : n <= m

\* len() of one atom.
AtomLen(a) == IF a = Backquote THEN 1 ELSE Len(a)

\* len() of the Python string: the characters of all atoms.
RECURSIVE CharLen(_)
CharLen(s) == IF s = <<>> THEN 0 ELSE AtomLen(Head(s)) + CharLen(Tail(s))

\* sql[:n] for a character count n.
RECURSIVE TakeChars(_, _)
TakeChars(s, n) ==
    IF s = <<>> \/ n <= 0 THEN <<>>
    ELSE IF AtomLen(Head(s)) <= n
    THEN <<Head(s)>> \o TakeChars(Tail(s), n - AtomLen(Head(s)))
    ELSE <<SubSeq(Head(s), 1, n)>>

\* sql[n:] for a character count n.
RECURSIVE DropChars(_, _)
DropChars(s, n) ==
    IF s = <<>> \/ n <= 0 THEN s
    ELSE IF AtomLen(Head(s)) <= n
    THEN DropChars(Tail(s), n - AtomLen(Head(s)))
    ELSE <<SubSeq(Head(s), n + 1, Len(Head(s)))>> \o Tail(s)

\* sql.find(';', n) as a character offset; len(sql) when there is none.
find_semicolon(s, n) ==
    LET P == { i \in 1..Len(s) :
                 s[i] = ";" /\ CharLen(SubSeq(s, 1, i - 1)) >= n }
    IN  IF P = {} THEN CharLen(s)
        ELSE CharLen(SubSeq(s, 1, Min(P) - 1))

\* sql[:pos].rstrip() + sql[end_pos:], end_pos the next ';' or the end.
remove_clause(s, pos) ==
    rstrip(TakeChars(s, pos)) \o DropChars(s, find_semicolon(s, pos))

\* The same without the removal of an existing LIMIT clause.
add_pagination_stacking(sql, page, page_size) ==
    rstrip(sql) \o
    <<" ", "LIMIT", " ", ToString(page_size), " ", "OFFSET", " ",
      ToString((page - 1) * page_size)>>

\* add_pagination(sql, page, page_size)
add_pagination(sql, page, page_size) ==
    LET limit_pos == rfind(upper(sql), "LIMIT")
        cut == IF limit_pos # 0
               THEN remove_clause(sql, CharLen(SubSeq(sql, 1, limit_pos - 1)))
               ELSE sql
        offset == (page - 1) * page_size
    IN  rstrip(cut) \o
        <<" ", "LIMIT", " ", ToString(page_size), " ", "OFFSET", " ", ToString(offset)>>

\* create_count_query(sql): the offset of LIMIT is taken in the text as it
\* was before the ORDER BY clause was removed.
create_count_query(sql) ==
    LET sql_upper == upper(sql)
        order_pos == rfind_order_by(sql_upper)
        limit_pos == rfind(sql_upper, "LIMIT")
        sql1 == IF order_pos # 0
                THEN remove_clause(sql, CharLen(SubSeq(sql, 1, order_pos - 1)))
                ELSE sql
        sql2 == IF limit_pos # 0
                THEN remove_clause(sql1, CharLen(SubSeq(sql, 1, limit_pos - 1)))
                ELSE sql1
    IN  <<"SELECT", " ", "COUNT", "(", "*", ")", " ", "as", " ", "total", " ",
          "FROM", " ", "(">> \o sql2 \o <<")", " ", "as", " ", "count_query">>

Max2(a, b) == IF a >= b THEN a ELSE b
Min2(a, b) == IF a <= b THEN a ELSE b

\* validate_pagination_params with the upper bound of page_size left out
validate_pagination_params_uncapped(page, page_size) ==
    <<Max2(1, page), Max2(1, page_size)>>

\* validate_pagination_params(page, page_size)
validate_pagination_params(page, page_size) ==
    <<Max2(1, page), Max2(1, Min2(1000, page_size))>>

\* trendsql_kg: PaginationHelper.validate_pagination_params(page, page_size,
\* max_page_size)
kg_validate_pagination_params(page, page_size, max_page_size) ==
    LET normalized_page == IF page < 1 THEN 1 ELSE page
        normalized_size == IF page_size < 1 THEN 50
                           ELSE IF page_size > max_page_size THEN max_page_size
                           ELSE page_size
    IN  <<normalized_page, normalized_size>>

(***************************************************************************)
(* trendsql_kg/app/llm_sql.py                                              *)
(***************************************************************************)

\* sql.replace(<fence>sql, '')
RECURSIVE RemoveSqlFences(_)
RemoveSqlFences(s) ==
    IF s = <<>> THEN <<>>
    ELSE IF FenceAt(s, 1) /\ Len(s) >= 4 /\ s[4] = "sql"
    THEN RemoveSqlFences(SubSeq(s, 5, Len(s)))
    ELSE <<Head(s)>> \o RemoveSqlFences(Tail(s))

\* sql.replace(<fence>, '')
RECURSIVE RemoveFences(_)
RemoveFences(s) ==
    IF s = <<>> THEN <<>>
    ELSE IF FenceAt(s, 1) THEN RemoveFences(SubSeq(s, 4, Len(s)))
    ELSE <<Head(s)>> \o RemoveFences(Tail(s))

\* r'(SELECT\s+.+?)(?:\n|$)' matched at position i: the last position of
\* group 1, 0 when the pattern does not match there.
SelectLineEnd(s, i) ==
    LET r == Len(s) - Len(lstrip(SubSeq(s, i + 1, Len(s))))
        E == { e \in (r + 1)..Len(s) : e = Len(s) \/ s[e + 1] = "\n" }
    IN  IF str_upper(s[i]) # "SELECT" \/ r < i + 1 THEN 0
        ELSE IF r + 1 <= Len(s) THEN Min(E)
        ELSE IF r - i >= 2 THEN Len(s)
        ELSE 0

\* LLMSQLGenerator._clean_sql
clean_sql(sql) ==
    LET s == strip(RemoveFences(RemoveSqlFences(sql)))
        M == { i \in 1..Len(s) : SelectLineEnd(s, i) # 0 }
    IN  IF s # <<>> /\ str_upper(s[1]) \in {"SELECT", "WITH"} THEN s
        ELSE IF M # {} THEN strip(SubSeq(s, Min(M), SelectLineEnd(s, Min(M))))
        ELSE s

(***************************************************************************)
(* trendsql_kg/app/pagination.py                                           *)
(***************************************************************************)

\* The text after position i.
After(s, i) == SubSeq(s, i + 1, Len(s))

\* \d+ : the text after its leading digits.
RECURSIVE SkipDigits(_)
SkipDigits(s) ==
    IF s # <<>> /\ IsDigits(Head(s)) THEN SkipDigits(Tail(s)) ELSE s

\* \s+\d+ at the start of r: the text after it, <<"no match">> otherwise.
NoMatch == <<"no match">>

AfterNumber(r) ==
    IF r # <<>> /\ IsSpace(Head(r)) /\ lstrip(r) # <<>> /\ IsDigits(Head(lstrip(r)))
    THEN SkipDigits(lstrip(r))
    ELSE NoMatch

\* \s+OFFSET\s+\d+ at the start of r: the text after it.
AfterOffsetClause(r) ==
    IF r # <<>> /\ IsSpace(Head(r)) /\ lstrip(r) # <<>>
       /\ str_upper(Head(lstrip(r))) = "OFFSET"
    THEN AfterNumber(Tail(lstrip(r)))
    ELSE NoMatch

\* r'\bLIMIT\s+\d+(\s+OFFSET\s+\d+)?\s*$' matches at position i.
LimitTailAt(s, i) ==
    /\ str_upper(s[i]) = "LIMIT"
    /\ WordBoundaryBefore(s, i)
    /\ AfterNumber(After(s, i)) # NoMatch
    /\ \/ lstrip(AfterNumber(After(s, i))) = <<>>
       \/ /\ AfterOffsetClause(AfterNumber(After(s, i))) # NoMatch
          /\ lstrip(AfterOffsetClause(AfterNumber(After(s, i)))) = <<>>

\* r'\bOFFSET\s+\d+\s*$' matches at position i.
OffsetTailAt(s, i) ==
    /\ str_upper(s[i]) = "OFFSET"
    /\ WordBoundaryBefore(s, i)
    /\ AfterNumber(After(s, i)) # NoMatch
    /\ lstrip(AfterNumber(After(s, i))) = <<>>

\* re.sub(r'\bLIMIT\s+\d+(\s+OFFSET\s+\d+)?\s*$', '', sql, flags=re.IGNORECASE)
RemoveLimitTail(s) ==
    LET P == { i \in 1..Len(s) : LimitTailAt(s, i) }
    IN  IF P = {} THEN s ELSE SubSeq(s, 1, Min(P) - 1)

\* re.sub(r'\bOFFSET\s+\d+\s*$', '', sql, flags=re.IGNORECASE)
RemoveOffsetTail(s) ==
    LET P == { i \in 1..Len(s) : OffsetTailAt(s, i) }
    IN  IF P = {} THEN s ELSE SubSeq(s, 1, Min(P) - 1)

\* PaginationHelper._remove_existing_pagination
remove_existing_pagination(sql) == strip(RemoveOffsetTail(RemoveLimitTail(sql)))

\* 'LIMIT' in sql_upper or 'OFFSET' in sql_upper
MentionsPagination(sql) ==
    \E i \in 1..Len(sql) : str_upper(sql[i]) \in {"LIMIT", "OFFSET"}

\* PaginationHelper.add_pagination
kg_add_pagination(sql, page, page_size) ==
    LET p == IF page < 1 THEN 1 ELSE page
        ps == IF page_size < 1 THEN 50 ELSE page_size
        offset == (p - 1) * ps
        base == IF MentionsPagination(sql) THEN remove_existing_pagination(sql) ELSE sql
    IN  base \o <<" ", "LIMIT", " ", ToString(ps), " ", "OFFSET", " ", ToString(offset)>>

\* Where the whitespace run that starts at position i ends; i - 1 when no
\* whitespace stands at i.
RunEnd(s, i) == Len(s) - Len(lstrip(After(s, i - 1)))

\* f"SELECT COUNT(*) FROM ({sql}) AS count_subquery"
wrap_in_subquery(sql) ==
    <<"SELECT", " ", "COUNT", "(", "*", ")", " ", "FROM", " ", "(">> \o sql \o
    <<")", " ", "AS", " ", "count_subquery">>

\* r'SELECT\s+(.+?)\s+FROM' matches at position i: the first '\s+' takes the
\* whole whitespace run unless the match then fails.
SelectFromAt(s, i) ==
    LET r == RunEnd(s, i + 1)
    IN  /\ str_upper(s[i]) = "SELECT"
        /\ r >= i + 1
        /\ \/ \E f \in (r + 3)..Len(s) :
                 str_upper(s[f]) = "FROM" /\ IsSpace(s[f - 1])
           \/ r - i >= 3 /\ r + 1 <= Len(s) /\ str_upper(s[r + 1]) = "FROM"

\* SELECT \s+ * \s+ FROM stands at position i.
SelectStarFromAt(s, i) ==
    LET r == RunEnd(s, i + 1)
        f == RunEnd(s, r + 2) + 1
    IN  /\ str_upper(s[i]) = "SELECT"
        /\ r >= i + 1
        /\ r + 2 <= Len(s) /\ s[r + 1] = "*" /\ IsSpace(s[r + 2])
        /\ f <= Len(s) /\ str_upper(s[f]) = "FROM"

\* select_match and select_clause.strip() == '*'
select_clause_is_star(s) ==
    LET M == { i \in 1..Len(s) : SelectFromAt(s, i) }
    IN  M # {} /\ SelectStarFromAt(s, Min(M))

\* re.sub(r'SELECT\s+\*\s+FROM', 'SELECT COUNT(*) FROM', sql, flags=re.IGNORECASE)
RECURSIVE ReplaceSelectStar(_)
ReplaceSelectStar(s) ==
    IF s = <<>> THEN <<>>
    ELSE IF SelectStarFromAt(s, 1)
    THEN <<"SELECT", " ", "COUNT", "(", "*", ")", " ", "FROM">> \o
         ReplaceSelectStar(After(s, RunEnd(s, RunEnd(s, 2) + 2) + 1))
    ELSE <<Head(s)>> \o ReplaceSelectStar(Tail(s))

\* The '.+?' of the ORDER BY pattern may end at position e: what follows is
\* \s+LIMIT, \s+OFFSET or the end of the text ('$').
ClauseStopsAt(s, e) ==
    \/ /\ e + 1 <= Len(s) /\ IsSpace(s[e + 1])
       /\ RunEnd(s, e + 1) + 1 <= Len(s)
       /\ str_upper(s[RunEnd(s, e + 1) + 1]) \in {"LIMIT", "OFFSET"}
    \/ e = Len(s)
    \/ e = Len(s) - 1 /\ s[Len(s)] = "\n"

\* The last position the ORDER BY pattern consumes when '.+?' ends at e.
ClauseMatchEnd(s, e) ==
    IF e + 1 <= Len(s) /\ IsSpace(s[e + 1]) /\ RunEnd(s, e + 1) + 1 <= Len(s)
       /\ str_upper(s[RunEnd(s, e + 1) + 1]) \in {"LIMIT", "OFFSET"}
    THEN RunEnd(s, e + 1) + 1
    ELSE e

\* r'\bORDER\s+BY\s+.+?(\s+LIMIT|\s+OFFSET|$)' matched at position i: the
\* last position of the match, 0 when it does not match there.
OrderByEnd(s, i) ==
    LET b == RunEnd(s, i + 1) + 1
        r2 == RunEnd(s, b + 1)
        E == { e \in (r2 + 1)..Len(s) : ClauseStopsAt(s, e) }
    IN  IF ~( /\ str_upper(s[i]) = "ORDER"
              /\ WordBoundaryBefore(s, i)
              /\ b >= i + 2 /\ b <= Len(s)
              /\ str_upper(s[b]) = "BY"
              /\ r2 >= b + 1 )
        THEN 0
        ELSE IF r2 + 1 <= Len(s) THEN ClauseMatchEnd(s, Min(E))
        ELSE IF r2 - b >= 2 THEN Len(s)
        ELSE 0

\* re.sub of the ORDER BY pattern with '', from position i on.
RECURSIVE RemoveOrderByFrom(_, _)
RemoveOrderByFrom(s, i) ==
    IF i > Len(s) THEN <<>>
    ELSE IF OrderByEnd(s, i) # 0 THEN RemoveOrderByFrom(s, OrderByEnd(s, i) + 1)
    ELSE <<s[i]>> \o RemoveOrderByFrom(s, i + 1)

\* PaginationHelper._create_count_query
kg_create_count_query(sql) ==
    LET u == upper(strip(sql))
        count_sql == IF select_clause_is_star(sql)
                     THEN ReplaceSelectStar(sql)
                     ELSE wrap_in_subquery(sql)
    IN  IF u # <<>> /\ u[1] = "WITH" THEN wrap_in_subquery(sql)
        ELSE strip(RemoveOffsetTail(RemoveLimitTail(RemoveOrderByFrom(count_sql, 1))))

(***************************************************************************)
(* Inputs: every text of at most a given length over an alphabet.          *)
(***************************************************************************)

MaxLen == 4
MaxLiteralLen == 5
MaxCommentLen == 6

RECURSIVE TextsOver(_, _)
TextsOver(A, n) ==
    IF n = 0 THEN { <<>> }
    ELSE LET shorter == TextsOver(A, n - 1)
         IN  shorter \cup { Append(s, a) : s \in { t \in shorter : Len(t) = n - 1 }, a \in A }

\* Keywords inside and outside literals, statements, function calls.
KeywordAlphabet == { "SELECT", "drop", "DO", "t", " ", "'", ";", "foo", "(" }

\* What a text may start with: keywords, identifiers, whitespace, comments.
GateAlphabet == { "SELECT", "WITH", "t", " ", "\n", "-", "/", "*" }

\* String literals that hold comment markers and whitespace.
LiteralAlphabet == { "SELECT", "'", "-", "x", " " }

\* Comment markers next to each other.
CommentAlphabet == { "-", "/", "*", "x" }

\* One text for every return path of the two checks.
VerdictAlphabet == { "SELECT", "drop", "exec", "UNION", " ", ";", "-" }

\* UNION and what follows it, on the same line or on a later one.
MaxUnionLen == 5

UnionAlphabet == { "SELECT", "UNION", "ALL", " ", "\n" }

\* A statement, then ' -- ', then what is hidden in the line comment.
MaxStatementLen == 3
MaxTrailerLen == 2

StatementAlphabet == { "SELECT", "t", " ", "\n", "-" }

TrailerAlphabet == { ";", "drop", " ", "-" }

CommentOpener == <<" ", "-", "-", " ">>

CommentedTexts ==
    { q \o CommentOpener \o j :
        q \in TextsOver(StatementAlphabet, MaxStatementLen),
        j \in TextsOver(TrailerAlphabet, MaxTrailerLen) }

(***************************************************************************)
(* The functions of the two sql_safety modules applied to one text.        *)
(***************************************************************************)

NoVerdict == [safe |-> FALSE, reason |-> Str(<<"not called">>)]

NoResponse == [endpoint |-> "", status |-> 0]

Uninitialized == [schema_introspector |-> "None", pagination_helper |-> "None"]

NoPageRequest == [page |-> 0, page_size |-> 0]

NoCounts == [inserted |-> 0, updated |-> 0, related_inserted |-> 0, related_updated |-> 0]

NoIngest == [connector |-> "", upsert |-> FALSE, pc |-> "idle", data |-> <<>>, i |-> 0,
             counts |-> NoCounts, events |-> <<>>, pending |-> 0, stored |-> 0,
             error |-> "none", result |-> "none"]

NoBody == [executed |-> FALSE, error |-> None, improve_calls |-> 0, attempts |-> <<>>]

InitExtras ==
    /\ validated = NoPageRequest
    /\ extracted = None
    /\ calls = <<>>
    /\ variant = <<>>
    /\ variant_verdict = NoVerdict
    /\ checker = sql_safety_checker
    /\ parser = <<>>
    /\ requests = <<>>
    /\ max_rows = 0
    /\ sql_response = NoBody
    /\ ingest = NoIngest

InitWith(T) ==
    /\ text \in T
    /\ pc = "input"
    /\ san = <<>>
    /\ san2 = <<>>
    /\ verdict = NoVerdict
    /\ components = Uninitialized
    /\ executed = <<>>
    /\ accepted = {}
    /\ response = NoResponse
    /\ page_request = NoPageRequest
    /\ paginated = <<>>
    /\ repaginated = <<>>
    /\ count_query = <<>>
    /\ InitExtras

InitOver(A, n) == InitWith(TextsOver(A, n))

\* trendsql: ensure_safe_select(text)
Check ==
    /\ pc = "input"
    /\ verdict' = ensure_safe_select(text)
    /\ pc' = "checked"
    /\ UNCHANGED <<text, san, san2, http, rewriter, extras>>

\* trendsql: sanitize_sql(text)
Sanitize ==
    /\ pc = "input"
    /\ san' = sanitize_sql(text)
    /\ pc' = "sanitized"
    /\ UNCHANGED <<text, san2, verdict, http, rewriter, extras>>

\* trendsql: sanitize_sql applied to its own output
SanitizeAgain ==
    /\ pc = "sanitized"
    /\ san2' = sanitize_sql(san)
    /\ pc' = "resanitized"
    /\ UNCHANGED <<text, san, verdict, http, rewriter, extras>>

\* trendsql: sql = sanitize_sql(sql); is_safe, error = ensure_safe_select(sql)
CheckSanitized ==
    /\ pc = "sanitized"
    /\ verdict' = ensure_safe_select(san)
    /\ pc' = "sanitized_checked"
    /\ UNCHANGED <<text, san, san2, http, rewriter, extras>>

\* trendsql_kg: is_safe_sql(text)
KgCheck ==
    /\ pc = "input"
    /\ \E lib \in ParseAnswers : verdict' = check_sql_safety(text, lib)
    /\ pc' = "kg_checked"
    /\ UNCHANGED <<text, san, san2, http, rewriter, extras>>

\* trendsql_kg: sanitize_sql(text)
KgSanitize ==
    /\ pc = "input"
    /\ san' = kg_sanitize_sql(text)
    /\ pc' = "kg_sanitized"
    /\ UNCHANGED <<text, san2, verdict, http, rewriter, extras>>

\* trendsql_kg: sanitize_sql applied to its own output
KgSanitizeAgain ==
    /\ pc = "kg_sanitized"
    /\ san2' = kg_sanitize_sql(san)
    /\ pc' = "kg_resanitized"
    /\ UNCHANGED <<text, san, verdict, http, rewriter, extras>>

Next ==
    \/ Check
    \/ Sanitize
    \/ SanitizeAgain
    \/ CheckSanitized
    \/ KgCheck
    \/ KgSanitize
    \/ KgSanitizeAgain

Init == InitOver(KeywordAlphabet, MaxLen)
Spec == Init /\ [][Next]_vars

InitGate == InitOver(GateAlphabet, MaxLen)
SpecGate == InitGate /\ [][Next]_vars

InitLiterals == InitOver(LiteralAlphabet, MaxLiteralLen)
SpecLiterals == InitLiterals /\ [][Next]_vars

InitComments == InitOver(CommentAlphabet, MaxCommentLen)
SpecComments == InitComments /\ [][Next]_vars

InitVerdicts == InitOver(VerdictAlphabet, MaxLen)
SpecVerdicts == InitVerdicts /\ [][Next]_vars

InitUnion == InitOver(UnionAlphabet, MaxUnionLen)
SpecUnion == InitUnion /\ [][Next]_vars

InitInjection == InitWith(CommentedTexts)
SpecInjection == InitInjection /\ [][Next]_vars

(***************************************************************************)
(* trendsql/app/app.py: the endpoints.  A handler runs from the request to *)
(* the response; what the language model and the database answer are its  *)
(* inputs.  Its result is the HTTP status, the texts it handed to          *)
(* cursor.execute and the texts on which the safety check returned True.   *)
(***************************************************************************)

MaxPage == 1
MaxPageSize == 1
MaxRows == 2
MaxHttpLen == 3

\* page: int = Field(default=1, ge=1)
Pages == 1..MaxPage

\* page_size: int = Field(default=50, ge=1, le=1000)
PageSizes == 1..MaxPageSize

\* max_rows: int = Field(default=5000, ge=1, le=50000)
MaxRowsValues == 1..MaxRows

\* The language model replies, or the call raises.
LlmAnswers == { "replies", "raises" }

\* The database: no connection, or a connection on which the first execute
\* raises, the second execute raises, or none does.
DbAnswers == { "no_connection", "first_execute_raises", "second_execute_raises", "ok" }

\* The texts of the list wanted that reach cursor.execute before an exception
\* ends the handler.
Handed(wanted, db) ==
    IF db = "no_connection" THEN <<>>
    ELSE IF db = "first_execute_raises" THEN SubSeq(wanted, 1, Min2(1, Len(wanted)))
    ELSE wanted

\* An execute of the list raised.
Raised(wanted, db) ==
    \/ db = "no_connection"
    \/ db = "first_execute_raises" /\ Len(wanted) >= 1
    \/ db = "second_execute_raises" /\ Len(wanted) >= 2

Result(status, handed, checked_safe) ==
    [status |-> status, executed |-> handed, accepted |-> checked_safe]

\* The texts of T on which ensure_safe_select returns True.
SafeOnes(T) == { t \in T : ensure_safe_select(t).safe }

\* add_pagination(sql, page, page_size), then create_count_query(sql) when
\* the total is asked for.
PageAndCount(sql, page, page_size, include_total) ==
    <<add_pagination(sql, page, page_size)>> \o
    (IF include_total THEN <<create_count_query(sql)>> ELSE <<>>)

\* POST /generate-sql; gen is what llm.generate_sql returned.
app_generate_sql(gen, page, page_size, execute, include_total, llm, db) ==
    LET pp == validate_pagination_params(page, page_size)
        sql == sanitize_sql(gen.parts)
        wanted == PageAndCount(sql, pp[1], pp[2], include_total)
    IN  IF db = "no_connection" \/ llm = "raises" THEN Result(500, <<>>, {})
        ELSE IF Falsy(gen) THEN Result(400, <<>>, {})
        ELSE IF ~ensure_safe_select(sql).safe
        THEN Result(400, <<>>, SafeOnes({gen.parts}))
        ELSE IF ~execute THEN Result(200, <<>>, SafeOnes({gen.parts, sql}))
        ELSE Result(IF Raised(wanted, db) THEN 400 ELSE 200,
                    Handed(wanted, db), SafeOnes({gen.parts, sql}))

\* POST /generate-html; gen is what llm.generate_sql returned.
app_generate_html(gen, page, page_size, llm, db) ==
    LET pp == validate_pagination_params(page, page_size)
        sql == sanitize_sql(gen.parts)
        wanted == <<add_pagination(sql, pp[1], pp[2])>>
    IN  IF db = "no_connection" \/ llm = "raises" THEN Result(500, <<>>, {})
        ELSE IF Falsy(gen) THEN Result(400, <<>>, {})
        ELSE IF ~ensure_safe_select(sql).safe
        THEN Result(400, <<>>, SafeOnes({gen.parts}))
        ELSE Result(IF Raised(wanted, db) THEN 500 ELSE 200,
                    Handed(wanted, db), SafeOnes({gen.parts, sql}))

\* POST /chat: the handler itself calls neither sanitize_sql nor
\* ensure_safe_select; sql is what llm.generate_sql returned.
app_chat(sql, page, page_size, llm, db) ==
    LET pp == validate_pagination_params(page, page_size)
        wanted == <<add_pagination(sql.parts, pp[1], pp[2])>>
    IN  IF db = "no_connection" \/ llm = "raises" THEN Result(500, <<>>, {})
        ELSE IF Falsy(sql) THEN Result(200, <<>>, {})
        ELSE Result(IF Raised(wanted, db) THEN 500 ELSE 200,
                    Handed(wanted, db), SafeOnes({sql.parts}))

\* POST /query
app_execute_query(request_sql, page, page_size, include_total, db) ==
    LET pp == validate_pagination_params(page, page_size)
        sql == sanitize_sql(request_sql)
        wanted == PageAndCount(sql, pp[1], pp[2], include_total)
    IN  IF ~ensure_safe_select(sql).safe THEN Result(400, <<>>, {})
        ELSE Result(IF Raised(wanted, db) THEN 400 ELSE 200,
                    Handed(wanted, db), SafeOnes({sql}))

\* if "LIMIT" not in sql.upper(): sql = f"{sql.rstrip()} LIMIT {request.max_rows}"
add_row_limit(sql, rows) ==
    IF \E i \in 1..Len(sql) : str_upper(sql[i]) = "LIMIT" THEN sql
    ELSE rstrip(sql) \o <<" ", "LIMIT", " ", ToString(rows)>>

\* POST /download-csv: the request carries the text as its sql, or carries a
\* prompt to which the text is the model's reply, or carries neither; gen is
\* what llm.generate_sql returned for the prompt.
app_download_csv(kind, content, gen, rows, llm, db) ==
    LET raw == IF kind = "sql" THEN content ELSE gen.parts
        sql == sanitize_sql(raw)
        checked == IF kind = "sql" THEN {sql} ELSE {raw, sql}
        wanted == <<add_row_limit(sql, rows)>>
    IN  IF db = "no_connection" THEN Result(500, <<>>, {})
        ELSE IF kind = "neither" \/ (kind = "sql" /\ content = <<>>)
        THEN Result(400, <<>>, {})
        ELSE IF kind = "prompt" /\ llm = "raises" THEN Result(500, <<>>, {})
        ELSE IF kind = "prompt" /\ Falsy(gen) THEN Result(400, <<>>, {})
        ELSE IF ~ensure_safe_select(sql).safe
        THEN Result(400, <<>>, SafeOnes(checked \ {sql}))
        ELSE Result(IF Raised(wanted, db) THEN 500 ELSE 200,
                    Handed(wanted, db), SafeOnes(checked))

(***************************************************************************)
(* trendsql_kg/app/app.py: the endpoints.                                  *)
(***************************************************************************)

\* The module-level generator of llm_sql.py: it replies, its call raises, or
\* it was never initialised (no API key).
KgLlmAnswers == { "replies", "raises", "not_initialized" }

\* What the model may reply when asked to improve a query that failed.
ImprovedReplies == { <<"drop", " ", "t">> }

\* One call of PaginationHelper.execute_paginated_query as the handler sees
\* it (raised: an exception left the call) and as the database saw it
\* (failed: psycopg.connect or the cursor.execute of the page query raised).
Attempt(sql, run, db) ==
    [sql |-> sql, raised |-> run.raised,
     failed |-> run.raised \/ db \in {"no_connection", "second_execute_raises"}]

\* The texts of T on which is_safe_sql returns True, sqlparse answering lib.
KgSafeOnes(T, lib) == { t \in T : check_sql_safety(t, lib).safe }

\* pagination.execute_paginated_query: it raises when the global helper is
\* None; PaginationHelper.execute_paginated_query counts, then pages, and
\* catches every exception of the database.
execute_paginated_query(sql, page, page_size, db, helper) ==
    IF helper = "None" THEN [raised |-> TRUE, handed |-> <<>>]
    ELSE [raised |-> FALSE,
          handed |-> IF db = "no_connection" THEN <<>>
                     ELSE <<kg_create_count_query(sql),
                            kg_add_pagination(sql, page, page_size)>>]

\* POST /generate-sql: when the execution raises, the handler asks the model
\* for an improved query and executes that one; sql is the generated query
\* and improved_sql what improve_sql returns, both after _clean_sql.
kg_generate_sql_endpoint(sql, improved_sql, page, page_size, execute, llm, db, lib, comp) ==
    LET first == execute_paginated_query(sql, page, page_size, db,
                                         comp.pagination_helper)
        second == execute_paginated_query(improved_sql, page, page_size, db,
                                          comp.pagination_helper)
    IN  IF comp.schema_introspector = "None" \/ llm = "not_initialized"
        THEN Result(500, <<>>, {})
        ELSE IF llm = "raises" THEN Result(400, <<>>, {})
        ELSE IF ~check_sql_safety(sql, lib).safe THEN Result(400, <<>>, {})
        ELSE IF ~execute THEN Result(200, <<>>, KgSafeOnes({sql}, lib))
        ELSE IF ~first.raised THEN Result(200, first.handed, KgSafeOnes({sql}, lib))
        ELSE Result(200, first.handed \o second.handed, KgSafeOnes({sql}, lib))

\* POST /generate-sql: the fields executed and error of the SQLResponse, the
\* calls of improve_sql and the attempts to execute; sql is the generated
\* query and improved_sql what improve_sql returns, both after _clean_sql.
kg_generate_sql_endpoint_body(sql, improved_sql, page, page_size, execute, llm, db, lib, comp) ==
    LET first == execute_paginated_query(sql, page, page_size, db,
                                         comp.pagination_helper)
        second == execute_paginated_query(improved_sql, page, page_size, db,
                                          comp.pagination_helper)
        answered == /\ comp.schema_introspector # "None"
                    /\ llm = "replies"
                    /\ check_sql_safety(sql, lib).safe
        execution_error == IF ~execute \/ ~first.raised THEN None
                           ELSE IF second.raised THEN Str(<<"e2">>)
                           ELSE None
    IN  IF ~answered THEN NoBody
        ELSE [executed |-> execute /\ execution_error = None,
              error |-> execution_error,
              improve_calls |-> IF execute /\ first.raised THEN 1 ELSE 0,
              attempts |-> IF ~execute THEN <<>>
                           ELSE IF ~first.raised THEN <<Attempt(sql, first, db)>>
                           ELSE <<Attempt(sql, first, db),
                                  Attempt(improved_sql, second, db)>>]

\* POST /generate-html
kg_generate_html_endpoint(request_sql, page, page_size, db, lib, comp) ==
    LET run == execute_paginated_query(request_sql, page, page_size, db,
                                       comp.pagination_helper)
    IN  IF ~check_sql_safety(request_sql, lib).safe THEN Result(400, <<>>, {})
        ELSE Result(IF run.raised THEN 500 ELSE 200, run.handed, KgSafeOnes({request_sql}, lib))

\* POST /download-csv
kg_download_csv_endpoint(request_sql, db, lib) ==
    IF ~check_sql_safety(request_sql, lib).safe THEN Result(400, <<>>, {})
    ELSE Result(IF Raised(<<request_sql>>, db) THEN 500 ELSE 200,
                Handed(<<request_sql>>, db), KgSafeOnes({request_sql}, lib))

(***************************************************************************)
(* The calls a handler makes, in the order of its code: sanitize_sql, the  *)
(* safety check, the rewriters (add_pagination, create_count_query, the    *)
(* row limit of /download-csv) and cursor.execute.  A handler that asks    *)
(* the model is given reply, the value of extract_sql_from_code_block on   *)
(* the model's text, and gen, the value of llm.generate_sql; a trendsql_kg *)
(* handler is given sql, the value of generate_sql after _clean_sql.       *)
(***************************************************************************)

Call(name, on, out, safe) == [call |-> name, on |-> on, out |-> out, safe |-> safe]

\* sql = sanitize_sql(raw)
SanitizeCall(raw) == Call("sanitize", raw, sanitize_sql(raw), TRUE)

\* is_safe, error = ensure_safe_select(sql)
CheckCall(sql) == Call("check", sql, sql, ensure_safe_select(sql).safe)

\* is_safe, safety_error = is_safe_sql(sql)
KgCheckCall(sql, lib) == Call("check", sql, sql, check_sql_safety(sql, lib).safe)

\* out = add_pagination(sql, ...), create_count_query(sql), or sql with the
\* row limit
RewriteCall(sql, out) == Call("rewrite", sql, out, TRUE)

\* cursor.execute(sql)
ExecuteCall(sql) == Call("execute", sql, sql, TRUE)

\* LLMSQLGenerator.generate_sql: the reply is extracted and checked as it
\* is; sql is what extract_sql_from_code_block returned.
generate_sql_calls(sql) ==
    IF Falsy(sql) THEN <<>> ELSE <<CheckCall(sql.parts)>>

\* Each text of wanted is rewritten from sql and handed to cursor.execute;
\* an execute that raises ends the handler.
RewriteAndExecute(sql, wanted, db) ==
    LET n == Len(Handed(wanted, db))
    IN  [i \in 1..(2 * n) |->
            IF i % 2 = 1 THEN RewriteCall(sql, wanted[(i + 1) \div 2])
            ELSE ExecuteCall(wanted[i \div 2])]

\* POST /generate-sql
app_generate_sql_calls(reply, gen, page, page_size, execute, include_total, llm, db) ==
    LET pp == validate_pagination_params(page, page_size)
        sql == sanitize_sql(gen.parts)
        wanted == PageAndCount(sql, pp[1], pp[2], include_total)
    IN  IF db = "no_connection" \/ llm = "raises" THEN <<>>
        ELSE IF Falsy(gen) THEN generate_sql_calls(reply)
        ELSE generate_sql_calls(reply) \o
             <<SanitizeCall(gen.parts), CheckCall(sql)>> \o
             (IF ensure_safe_select(sql).safe /\ execute
              THEN RewriteAndExecute(sql, wanted, db) ELSE <<>>)

\* POST /generate-html
app_generate_html_calls(reply, gen, page, page_size, llm, db) ==
    LET pp == validate_pagination_params(page, page_size)
        sql == sanitize_sql(gen.parts)
        wanted == <<add_pagination(sql, pp[1], pp[2])>>
    IN  IF db = "no_connection" \/ llm = "raises" THEN <<>>
        ELSE IF Falsy(gen) THEN generate_sql_calls(reply)
        ELSE generate_sql_calls(reply) \o
             <<SanitizeCall(gen.parts), CheckCall(sql)>> \o
             (IF ensure_safe_select(sql).safe
              THEN RewriteAndExecute(sql, wanted, db) ELSE <<>>)

\* POST /chat
app_chat_calls(reply, sql, page, page_size, llm, db) ==
    LET pp == validate_pagination_params(page, page_size)
        wanted == <<add_pagination(sql.parts, pp[1], pp[2])>>
    IN  IF db = "no_connection" \/ llm = "raises" THEN <<>>
        ELSE IF Falsy(sql) THEN generate_sql_calls(reply)
        ELSE generate_sql_calls(reply) \o RewriteAndExecute(sql.parts, wanted, db)

\* POST /query
app_execute_query_calls(request_sql, page, page_size, include_total, db) ==
    LET pp == validate_pagination_params(page, page_size)
        sql == sanitize_sql(request_sql)
        wanted == PageAndCount(sql, pp[1], pp[2], include_total)
    IN  <<SanitizeCall(request_sql), CheckCall(sql)>> \o
        (IF ensure_safe_select(sql).safe
         THEN RewriteAndExecute(sql, wanted, db) ELSE <<>>)

\* POST /download-csv
app_download_csv_calls(kind, content, reply, gen, rows, llm, db) ==
    LET raw == IF kind = "sql" THEN content ELSE gen.parts
        sql == sanitize_sql(raw)
        wanted == <<add_row_limit(sql, rows)>>
        generated == IF kind = "prompt" THEN generate_sql_calls(reply) ELSE <<>>
    IN  IF db = "no_connection" THEN <<>>
        ELSE IF kind = "neither" \/ (kind = "sql" /\ content = <<>>) THEN <<>>
        ELSE IF kind = "prompt" /\ llm = "raises" THEN <<>>
        ELSE IF kind = "prompt" /\ Falsy(gen) THEN generated
        ELSE generated \o <<SanitizeCall(raw), CheckCall(sql)>> \o
             (IF ensure_safe_select(sql).safe
              THEN RewriteAndExecute(sql, wanted, db) ELSE <<>>)

\* PaginationHelper.execute_paginated_query: the count query is built and
\* executed, then the page query; an exception of the database is caught.
execute_paginated_query_calls(sql, page, page_size, db, helper) ==
    LET count_sql == kg_create_count_query(sql)
        paginated_sql == kg_add_pagination(sql, page, page_size)
        connected == db # "no_connection"
    IN  IF helper = "None" THEN <<>>
        ELSE <<RewriteCall(sql, count_sql)>> \o
             (IF connected THEN <<ExecuteCall(count_sql)>> ELSE <<>>) \o
             <<RewriteCall(sql, paginated_sql)>> \o
             (IF connected THEN <<ExecuteCall(paginated_sql)>> ELSE <<>>)

\* trendsql_kg POST /generate-sql
kg_generate_sql_endpoint_calls(sql, improved_sql, page, page_size, execute, llm, db, lib, comp) ==
    LET first == execute_paginated_query(sql, page, page_size, db,
                                         comp.pagination_helper)
    IN  IF comp.schema_introspector = "None" \/ llm \in {"not_initialized", "raises"}
        THEN <<>>
        ELSE <<KgCheckCall(sql, lib)>> \o
             (IF ~check_sql_safety(sql, lib).safe \/ ~execute THEN <<>>
              ELSE execute_paginated_query_calls(sql, page, page_size, db,
                                                 comp.pagination_helper) \o
                   (IF first.raised
                    THEN execute_paginated_query_calls(improved_sql, page, page_size,
                                                       db, comp.pagination_helper)
                    ELSE <<>>))

\* trendsql_kg POST /generate-html
kg_generate_html_endpoint_calls(request_sql, page, page_size, db, lib, comp) ==
    <<KgCheckCall(request_sql, lib)>> \o
    (IF check_sql_safety(request_sql, lib).safe
     THEN execute_paginated_query_calls(request_sql, page, page_size, db,
                                        comp.pagination_helper)
     ELSE <<>>)

\* trendsql_kg POST /download-csv
kg_download_csv_endpoint_calls(request_sql, db, lib) ==
    <<KgCheckCall(request_sql, lib)>> \o
    (IF check_sql_safety(request_sql, lib).safe
     THEN [i \in 1..Len(Handed(<<request_sql>>, db)) |-> ExecuteCall(request_sql)]
     ELSE <<>>)

(***************************************************************************)
(* One request to one endpoint.                                            *)
(***************************************************************************)

\* What a model replies with, and what a client sends as SQL.
HttpAlphabet == { "SELECT", "drop", " ", "LIMIT" }

\* A text inside a Markdown code block, tagged sql or not.
Fenced(body, tagged) ==
    <<Backquote, Backquote, Backquote>> \o
    (IF tagged THEN <<"sql">> ELSE <<>>) \o <<"\n">> \o body \o
    <<"\n", Backquote, Backquote, Backquote>>

Replies ==
    LET bodies == TextsOver(HttpAlphabet, MaxHttpLen)
    IN  bodies \cup { Fenced(b, TRUE) : b \in bodies }
               \cup { Fenced(b, FALSE) : b \in bodies }

InitHttp ==
    /\ text \in Replies
    /\ pc = "input"
    /\ san = <<>>
    /\ san2 = <<>>
    /\ verdict = NoVerdict
    /\ components = Uninitialized
    /\ executed = <<>>
    /\ accepted = {}
    /\ response = NoResponse
    /\ page_request = NoPageRequest
    /\ paginated = <<>>
    /\ repaginated = <<>>
    /\ count_query = <<>>
    /\ InitExtras

\* The handler of an endpoint has answered with result r after making the
\* calls of log.
Respond(endpoint, r, log) ==
    /\ executed' = r.executed
    /\ accepted' = r.accepted
    /\ response' = [endpoint |-> endpoint, status |-> r.status]
    /\ calls' = log
    /\ pc' = "responded"
    /\ UNCHANGED <<text, san, san2, verdict, components, rewriter, validated, extracted,
                   variant, variant_verdict, concurrent>>

\* trendsql_kg: startup_event, initialize_components()
Startup ==
    /\ pc = "input"
    /\ components = Uninitialized
    /\ components' = [schema_introspector |-> "SchemaIntrospector",
                      pagination_helper |-> "PaginationHelper"]
    /\ UNCHANGED <<text, pc, san, san2, verdict, executed, accepted, response, rewriter, extras>>

GenerateSql ==
    /\ pc = "input"
    /\ UNCHANGED <<max_rows, sql_response, ingest>>
    /\ \E page \in Pages, page_size \in PageSizes, execute \in BOOLEAN,
          include_total \in BOOLEAN, llm \in LlmAnswers, db \in DbAnswers,
          reply \in {extract_sql_from_code_block(text)},
          gen \in {generate_sql(text)} :
          Respond("trendsql /generate-sql",
                  app_generate_sql(gen, page, page_size, execute, include_total,
                                   llm, db),
                  app_generate_sql_calls(reply, gen, page, page_size, execute,
                                         include_total, llm, db))

GenerateHtml ==
    /\ pc = "input"
    /\ UNCHANGED <<max_rows, sql_response, ingest>>
    /\ \E page \in Pages, page_size \in PageSizes, llm \in LlmAnswers,
          db \in DbAnswers, reply \in {extract_sql_from_code_block(text)},
          gen \in {generate_sql(text)} :
          Respond("trendsql /generate-html",
                  app_generate_html(gen, page, page_size, llm, db),
                  app_generate_html_calls(reply, gen, page, page_size, llm, db))

Chat ==
    /\ pc = "input"
    /\ UNCHANGED <<max_rows, sql_response, ingest>>
    /\ \E page \in Pages, page_size \in PageSizes, llm \in LlmAnswers,
          db \in DbAnswers, reply \in {extract_sql_from_code_block(text)},
          gen \in {generate_sql(text)} :
          Respond("trendsql /chat", app_chat(gen, page, page_size, llm, db),
                  app_chat_calls(reply, gen, page, page_size, llm, db))

Query ==
    /\ pc = "input"
    /\ UNCHANGED <<max_rows, sql_response, ingest>>
    /\ \E page \in Pages, page_size \in PageSizes, include_total \in BOOLEAN,
          db \in DbAnswers :
          Respond("trendsql /query",
                  app_execute_query(text, page, page_size, include_total, db),
                  app_execute_query_calls(text, page, page_size, include_total, db))

DownloadCsv ==
    /\ pc = "input"
    /\ \E kind \in {"sql", "prompt", "neither"}, rows \in MaxRowsValues,
          llm \in LlmAnswers, db \in DbAnswers, reply \in {extract_sql_from_code_block(text)},
          gen \in {generate_sql(text)} :
          /\ max_rows' = rows
          /\ UNCHANGED <<sql_response, ingest>>
          /\ Respond("trendsql /download-csv",
                     app_download_csv(kind, text, gen, rows, llm, db),
                     app_download_csv_calls(kind, text, reply, gen, rows, llm, db))

KgGenerateSql ==
    /\ pc = "input"
    /\ UNCHANGED <<max_rows, ingest>>
    /\ \E improved \in ImprovedReplies, page \in Pages, page_size \in PageSizes,
          execute \in BOOLEAN, llm \in KgLlmAnswers, db \in DbAnswers,
          lib \in ParseAnswers :
          \E sql \in {clean_sql(strip(text))},
             improved_sql \in {clean_sql(strip(improved))} :
             /\ sql_response' = kg_generate_sql_endpoint_body(sql, improved_sql, page,
                                      page_size, execute, llm, db, lib, components)
             /\ Respond("trendsql_kg /generate-sql",
                        kg_generate_sql_endpoint(sql, improved_sql, page, page_size,
                                                 execute, llm, db, lib, components),
                        kg_generate_sql_endpoint_calls(sql, improved_sql, page,
                                      page_size, execute, llm, db, lib, components))

KgGenerateHtml ==
    /\ pc = "input"
    /\ UNCHANGED <<max_rows, sql_response, ingest>>
    /\ \E page \in Pages, page_size \in PageSizes, db \in DbAnswers,
          lib \in ParseAnswers :
          Respond("trendsql_kg /generate-html",
                  kg_generate_html_endpoint(text, page, page_size, db, lib,
                                            components),
                  kg_generate_html_endpoint_calls(text, page, page_size, db, lib,
                                                  components))

KgDownloadCsv ==
    /\ pc = "input"
    /\ UNCHANGED <<max_rows, sql_response, ingest>>
    /\ \E db \in DbAnswers, lib \in ParseAnswers :
          Respond("trendsql_kg /download-csv",
                  kg_download_csv_endpoint(text, db, lib),
                  kg_download_csv_endpoint_calls(text, db, lib))

NextHttp ==
    \/ Startup
    \/ GenerateSql
    \/ GenerateHtml
    \/ Chat
    \/ Query
    \/ DownloadCsv
    \/ KgGenerateSql
    \/ KgGenerateHtml
    \/ KgDownloadCsv

SpecHttp == InitHttp /\ [][NextHttp]_vars

(***************************************************************************)
(* The pagination rewriter of both packages applied to one statement.      *)
(***************************************************************************)

MaxQueryLen == 3

\* Identifiers, string literals and subqueries that contain 'limit'.
RewriteAlphabet == { "SELECT", "t", " ", "(", ")", "limit", "'" }

\* The clauses a statement may end with.
ClauseTails ==
    { <<>>,
      <<" ", "LIMIT", " ", "5">>,
      <<" ", "LIMIT", " ", "5", " ", "OFFSET", " ", "10">>,
      <<" ", "ORDER", " ", "BY", " ", "x">>,
      <<" ", "ORDER", " ", "BY", " ", "x", " ", "LIMIT", " ", "5">>,
      <<" ", "OFFSET", " ", "1", " ", "OFFSET", " ", "2">> }

Statements ==
    { q \o tail : q \in TextsOver(RewriteAlphabet, MaxQueryLen), tail \in ClauseTails }

\* (page, page_size) with page >= 1 and 1 <= page_size <= 1000.
PageRequests ==
    { [page |-> 1, page_size |-> 10],
      [page |-> 2, page_size |-> 20],
      [page |-> 3, page_size |-> 25] }

InitPagination == InitWith(Statements)

\* trendsql: add_pagination(text, page, page_size)
Paginate ==
    /\ pc = "input"
    /\ \E r \in PageRequests :
          /\ page_request' = r
          /\ paginated' = add_pagination(text, r.page, r.page_size)
    /\ pc' = "paginated"
    /\ UNCHANGED <<text, san, san2, verdict, http, repaginated, count_query, extras>>

\* trendsql: add_pagination applied to its own output
PaginateAgain ==
    /\ pc = "paginated"
    /\ \E r \in PageRequests :
          /\ page_request' = r
          /\ repaginated' = add_pagination(paginated, r.page, r.page_size)
    /\ pc' = "repaginated"
    /\ UNCHANGED <<text, san, san2, verdict, http, paginated, count_query, extras>>

\* trendsql: create_count_query(text)
CountQuery ==
    /\ pc = "input"
    /\ count_query' = create_count_query(text)
    /\ pc' = "counted"
    /\ UNCHANGED <<text, san, san2, verdict, http, page_request, paginated, repaginated, extras>>

\* trendsql_kg: PaginationHelper.add_pagination(text, page, page_size)
KgPaginate ==
    /\ pc = "input"
    /\ \E r \in PageRequests :
          /\ page_request' = r
          /\ paginated' = kg_add_pagination(text, r.page, r.page_size)
    /\ pc' = "kg_paginated"
    /\ UNCHANGED <<text, san, san2, verdict, http, repaginated, count_query, extras>>

\* trendsql_kg: PaginationHelper.add_pagination applied to its own output
KgPaginateAgain ==
    /\ pc = "kg_paginated"
    /\ \E r \in PageRequests :
          /\ page_request' = r
          /\ repaginated' = kg_add_pagination(paginated, r.page, r.page_size)
    /\ pc' = "kg_repaginated"
    /\ UNCHANGED <<text, san, san2, verdict, http, paginated, count_query, extras>>

\* trendsql_kg: PaginationHelper._create_count_query(text)
KgCountQuery ==
    /\ pc = "input"
    /\ count_query' = kg_create_count_query(text)
    /\ pc' = "kg_counted"
    /\ UNCHANGED <<text, san, san2, verdict, http, page_request, paginated, repaginated, extras>>

NextPagination ==
    \/ Paginate
    \/ PaginateAgain
    \/ CountQuery
    \/ KgPaginate
    \/ KgPaginateAgain
    \/ KgCountQuery

SpecPagination == InitPagination /\ [][NextPagination]_vars

(***************************************************************************)
(* validate_pagination_params of both packages applied to one (page,       *)
(* page_size) pair.  Python integers are unbounded: no width applies.      *)
(***************************************************************************)

MaxExcess == 2

\* Integers around 0 and 1, around the default page size and around the
\* largest page size.
ParamValues == { b + d : b \in {0, 50, 1000}, d \in (0 - MaxExcess)..MaxExcess }

InitParams ==
    /\ text = <<>>
    /\ pc = "input"
    /\ san = <<>>
    /\ san2 = <<>>
    /\ verdict = NoVerdict
    /\ components = Uninitialized
    /\ executed = <<>>
    /\ accepted = {}
    /\ response = NoResponse
    /\ page_request \in [page : ParamValues, page_size : ParamValues]
    /\ paginated = <<>>
    /\ repaginated = <<>>
    /\ count_query = <<>>
    /\ InitExtras

\* trendsql: validate_pagination_params(page, page_size)
Validate ==
    /\ pc = "input"
    /\ LET pp == validate_pagination_params(page_request.page, page_request.page_size)
       IN  validated' = [page |-> pp[1], page_size |-> pp[2]]
    /\ pc' = "validated"
    /\ UNCHANGED <<text, san, san2, verdict, http, rewriter, extracted, calls, variant, variant_verdict, concurrent, max_rows, sql_response, ingest>>

\* trendsql_kg: PaginationHelper.validate_pagination_params(page, page_size),
\* max_page_size taking its default 1000
KgValidate ==
    /\ pc = "input"
    /\ LET pp == kg_validate_pagination_params(page_request.page,
                                               page_request.page_size, 1000)
       IN  validated' = [page |-> pp[1], page_size |-> pp[2]]
    /\ pc' = "kg_validated"
    /\ UNCHANGED <<text, san, san2, verdict, http, rewriter, extracted, calls, variant, variant_verdict, concurrent, max_rows, sql_response, ingest>>

NextParams ==
    \/ Validate
    \/ KgValidate

SpecParams == InitParams /\ [][NextParams]_vars

(***************************************************************************)
(* extract_sql_from_code_block applied to one reply of the language model. *)
(***************************************************************************)

MaxBodyLen == 2

Fence == <<Backquote, Backquote, Backquote>>

\* What a reply may open a code block with, or fail to.
Openers ==
    { <<>>, Fence, Fence \o <<"sql">>, Fence \o <<"\n">>,
      Fence \o <<"sql", "\n">>, Fence \o <<"SQL", "\n">>,
      Fence \o <<"sql", " ", "\n">>, Fence \o <<" ">> }

\* What a reply may close a code block with, or fail to.
Closers == { <<>>, Fence, <<"\n">> \o Fence }

Prologues == { <<>>, <<"t", "\n">> }

Epilogues == { <<>>, <<"\n", "t">> }

BlockBodies == TextsOver({ "SELECT", " ", "\n", Backquote }, MaxBodyLen)

ModelReplies ==
    { pre \o open \o body \o close \o post :
        pre \in Prologues, open \in Openers, body \in BlockBodies,
        close \in Closers, post \in Epilogues }

InitExtract == InitWith(ModelReplies)

\* trendsql: extract_sql_from_code_block(text)
Extract ==
    /\ pc = "input"
    /\ extracted' = extract_sql_from_code_block(text)
    /\ pc' = "extracted"
    /\ UNCHANGED <<text, san, san2, verdict, http, rewriter, validated, calls, variant, variant_verdict, concurrent, max_rows, sql_response, ingest>>

NextExtract == Extract

SpecExtract == InitExtract /\ [][NextExtract]_vars

(***************************************************************************)
(* The safety check of both packages applied to a text and to the same     *)
(* text in another letter case.                                            *)
(***************************************************************************)

MaxCaseLen == 3

CaseAlphabet == { "select", "drop", "exec", "t", " ", ";" }

\* The spellings of one word in upper, lower and mixed case.
CaseClasses ==
    { {"SELECT", "select", "SeLeCt"}, {"DROP", "drop"}, {"EXEC", "exec"},
      {"T", "t"} }

\* The atoms that differ from a only in the case of their letters, and a.
CaseSiblings(a) == {a} \cup UNION { c \in CaseClasses : a \in c }

\* The texts that differ from s only in the case of their letters.
CaseVariants(s) ==
    { v \in [1..Len(s) -> UNION CaseClasses \cup CaseAlphabet] :
        \A i \in 1..Len(s) : v[i] \in CaseSiblings(s[i]) }

InitCase == InitOver(CaseAlphabet, MaxCaseLen)

\* trendsql: ensure_safe_select(text), ensure_safe_select(variant)
CheckVariant ==
    /\ pc = "input"
    /\ \E v \in CaseVariants(text) :
          /\ variant' = v
          /\ variant_verdict' = ensure_safe_select(v)
    /\ verdict' = ensure_safe_select(text)
    /\ pc' = "case_checked"
    /\ UNCHANGED <<text, san, san2, http, rewriter, validated, extracted, calls, concurrent, max_rows, sql_response, ingest>>

\* trendsql_kg: is_safe_sql(text), is_safe_sql(variant); the lexer of
\* sqlparse matches keywords with re.IGNORECASE, so that it answers the same
\* for both
KgCheckVariant ==
    /\ pc = "input"
    /\ \E v \in CaseVariants(text), lib \in ParseAnswers :
          /\ variant' = v
          /\ variant_verdict' = check_sql_safety(v, lib)
          /\ verdict' = check_sql_safety(text, lib)
    /\ pc' = "kg_case_checked"
    /\ UNCHANGED <<text, san, san2, http, rewriter, validated, extracted, calls, concurrent, max_rows, sql_response, ingest>>

NextCase ==
    \/ CheckVariant
    \/ KgCheckVariant

SpecCase == InitCase /\ [][NextCase]_vars

(***************************************************************************)
(* Ingestion: one call of ingest_data of a connector, step by step.  The   *)
(* connection db_conn is in a transaction: a written row is pending until  *)
(* commit stores it or rollback discards it.                               *)
(***************************************************************************)

\* The most rows one fetch returns for one table.
MaxFetched == 2

Connectors == {"ExplodingTopicsConnector", "GoogleTrendsConnector"}

\* What cursor.execute and fetchone answer for one row: RETURNING (xmax = 0)
\* tells an insert from an update; either call may raise.
WriteAnswers == {"inserted", "updated", "raises"}

CommitAnswers == {"ok", "raises"}

RowsOf(table) == UNION { [1..n -> {table}] : n \in 0..MaxFetched }

\* What fetch_data may return: the rows, each named by the table it goes to.
\* GoogleTrendsConnector writes data["interest_over_time"] and then
\* data["related_topics"].
FetchedData(connector) ==
    IF connector = "ExplodingTopicsConnector" THEN RowsOf("exploding_topics")
    ELSE { interest \o related : interest \in RowsOf("gt_interest_over_time"),
                                 related \in RowsOf("gt_related_topics") }

\* ExplodingTopicsConnector.fetch_data raises ValueError for an unsupported
\* fetch_mode; GoogleTrendsConnector.fetch_data catches what its calls raise.
FetchAnswers(connector) ==
    IF connector = "ExplodingTopicsConnector" THEN {"rows", "raises"} ELSE {"rows"}

\* The counters after a row was written with this answer.
count_row_updates_uncounted(counts, table, upsert, answer) ==
    IF table = "gt_related_topics"
    THEN IF answer = "inserted"
         THEN [counts EXCEPT !.related_inserted = @ + 1]
         ELSE counts
    ELSE IF ~upsert \/ answer = "inserted"
         THEN [counts EXCEPT !.inserted = @ + 1]
         ELSE counts

count_row(counts, table, upsert, answer) ==
    IF table = "gt_related_topics"
    THEN IF answer = "inserted"
         THEN [counts EXCEPT !.related_inserted = @ + 1]
         ELSE [counts EXCEPT !.related_updated = @ + 1]
    ELSE IF ~upsert \/ answer = "inserted"
         THEN [counts EXCEPT !.inserted = @ + 1]
         ELSE [counts EXCEPT !.updated = @ + 1]

InitIngest ==
    /\ text = <<>>
    /\ pc = "input"
    /\ san = <<>>
    /\ san2 = <<>>
    /\ verdict = NoVerdict
    /\ components = Uninitialized
    /\ executed = <<>>
    /\ accepted = {}
    /\ response = NoResponse
    /\ page_request = NoPageRequest
    /\ paginated = <<>>
    /\ repaginated = <<>>
    /\ count_query = <<>>
    /\ validated = NoPageRequest
    /\ extracted = None
    /\ calls = <<>>
    /\ variant = <<>>
    /\ variant_verdict = NoVerdict
    /\ checker = sql_safety_checker
    /\ parser = <<>>
    /\ requests = <<>>
    /\ max_rows = 0
    /\ sql_response = NoBody
    /\ \E connector \in Connectors, upsert \in BOOLEAN :
          /\ connector = "GoogleTrendsConnector" => upsert
          /\ ingest = [NoIngest EXCEPT !.connector = connector, !.upsert = upsert,
                                       !.pc = "start"]

IngestUntouched ==
    UNCHANGED <<text, pc, san, san2, verdict, http, rewriter, validated, extracted, calls,
                variant, variant_verdict, concurrent, max_rows, sql_response>>

\* data = self.fetch_data(); ExplodingTopicsConnector returns at once when
\* there is no data.
Fetch ==
    /\ ingest.pc = "start"
    /\ \E fetch \in FetchAnswers(ingest.connector), data \in FetchedData(ingest.connector) :
          ingest' =
              IF fetch = "raises"
              THEN [ingest EXCEPT !.pc = "done", !.error = "fetch", !.result = "raised"]
              ELSE IF ingest.connector = "ExplodingTopicsConnector" /\ data = <<>>
              THEN [ingest EXCEPT !.pc = "done", !.result = "returned"]
              ELSE [ingest EXCEPT !.pc = "writing", !.data = data, !.i = 1]
    /\ IngestUntouched

\* One turn of the loop over the rows: _upsert_row or _insert_row.
WriteRow ==
    /\ ingest.pc = "writing"
    /\ ingest.i <= Len(ingest.data)
    /\ \E answer \in WriteAnswers :
          ingest' =
              IF answer = "raises"
              THEN [ingest EXCEPT !.pc = "failed", !.error = "write",
                                  !.events = Append(@, "write_raised")]
              ELSE [ingest EXCEPT !.i = @ + 1,
                                  !.counts = count_row(@, ingest.data[ingest.i],
                                                       ingest.upsert, answer),
                                  !.pending = @ + 1,
                                  !.events = Append(@, "write")]
    /\ IngestUntouched

\* self.db_conn.commit() after the loop, then the return.
Commit ==
    /\ ingest.pc = "writing"
    /\ ingest.i > Len(ingest.data)
    /\ \E commit \in CommitAnswers :
          ingest' =
              IF commit = "raises"
              THEN [ingest EXCEPT !.pc = "failed", !.error = "commit",
                                  !.events = Append(@, "commit")]
              ELSE [ingest EXCEPT !.pc = "done", !.result = "returned",
                                  !.stored = @ + ingest.pending, !.pending = 0,
                                  !.events = Append(@, "commit")]
    /\ IngestUntouched

\* except Exception: self.db_conn.rollback(); raise
Rollback ==
    /\ ingest.pc = "failed"
    /\ ingest' = [ingest EXCEPT !.pc = "done", !.result = "raised", !.pending = 0,
                                !.events = Append(@, "rollback")]
    /\ IngestUntouched

NextIngest ==
    \/ Fetch
    \/ WriteRow
    \/ Commit
    \/ Rollback

SpecIngest == InitIngest /\ [][NextIngest]_vars

(***************************************************************************)
(* Concurrent requests.  Each request r computes check(sanitize(text)) on  *)
(* its own text, and calls the check up to MaxChecks times; the steps of   *)
(* different requests interleave.  The requests of trendsql_kg share the   *)
(* global sql_safety_checker; ensure_safe_select and sanitize_sql of       *)
(* trendsql use local variables only.  sqlparse is a function of the text  *)
(* it is given: parser holds its answer for every text.                    *)
(***************************************************************************)

NumRequests == 2
MaxChecks == 2

RequestIds == 1..NumRequests

\* A query that is accepted, one that is accepted once its comment is
\* removed, and one that is rejected.
RequestTexts ==
    { <<"SELECT", " ", "t">>,
      <<"SELECT", " ", "t", " ", "-", "-", "drop">>,
      <<"drop", " ", "t">> }

\* What sqlparse may answer about a text of RequestTexts.
RequestParseAnswers == { "one_clean_statement", "dangerous_token" }

NewRequest(package, sql) ==
    [package |-> package, text |-> sql, pc |-> "start", san |-> <<>>,
     verdicts |-> <<>>]

InitConcurrent ==
    /\ text = <<>>
    /\ pc = "input"
    /\ san = <<>>
    /\ san2 = <<>>
    /\ verdict = NoVerdict
    /\ components = Uninitialized
    /\ executed = <<>>
    /\ accepted = {}
    /\ response = NoResponse
    /\ page_request = NoPageRequest
    /\ paginated = <<>>
    /\ repaginated = <<>>
    /\ count_query = <<>>
    /\ validated = NoPageRequest
    /\ extracted = None
    /\ calls = <<>>
    /\ variant = <<>>
    /\ variant_verdict = NoVerdict
    /\ checker = sql_safety_checker
    /\ parser \in [{ kg_sanitize_sql(t) : t \in RequestTexts } -> RequestParseAnswers]
    /\ requests \in [RequestIds ->
                        { NewRequest(p, t) : p \in {"trendsql", "trendsql_kg"},
                                             t \in RequestTexts }]
    /\ max_rows = 0
    /\ sql_response = NoBody
    /\ ingest = NoIngest

Untouched == <<text, pc, san, san2, verdict, http, rewriter, validated, extracted,
               calls, variant, variant_verdict, parser, max_rows, sql_response, ingest>>

\* trendsql: sql = sanitize_sql(request.sql)
RequestSanitize(r) ==
    /\ requests[r].package = "trendsql"
    /\ requests[r].pc = "start"
    /\ requests' = [requests EXCEPT ![r].san = sanitize_sql(requests[r].text),
                                     ![r].pc = "sanitized"]
    /\ UNCHANGED <<Untouched, checker>>

\* trendsql: ensure_safe_select(sql)
RequestCheck(r) ==
    /\ requests[r].package = "trendsql"
    /\ requests[r].pc = "sanitized"
    /\ Len(requests[r].verdicts) < MaxChecks
    /\ requests' = [requests EXCEPT ![r].verdicts =
                        Append(@, ensure_safe_select(requests[r].san))]
    /\ UNCHANGED <<Untouched, checker>>

\* trendsql_kg: sanitize_sql(sql), that is sql_safety_checker.sanitize_sql(sql)
KgRequestSanitize(r) ==
    /\ requests[r].package = "trendsql_kg"
    /\ requests[r].pc = "start"
    /\ requests' = [requests EXCEPT ![r].san = kg_sanitize_sql(requests[r].text),
                                     ![r].pc = "sanitized"]
    /\ UNCHANGED <<Untouched, checker>>

\* trendsql_kg: is_safe_sql(sql), that is
\* sql_safety_checker.check_sql_safety(sql)
KgRequestCheck(r) ==
    /\ requests[r].package = "trendsql_kg"
    /\ requests[r].pc = "sanitized"
    /\ Len(requests[r].verdicts) < MaxChecks
    /\ requests' = [requests EXCEPT ![r].verdicts =
                        Append(@, instance_check_sql_safety(checker, requests[r].san,
                                                            parser[requests[r].san]))]
    /\ checker' = instance_after_check(checker, requests[r].san)
    /\ UNCHANGED Untouched

NextConcurrent ==
    \E r \in RequestIds :
        \/ RequestSanitize(r)
        \/ RequestCheck(r)
        \/ KgRequestSanitize(r)
        \/ KgRequestCheck(r)

SpecConcurrent == InitConcurrent /\ [][NextConcurrent]_vars

(***************************************************************************)
(* Vocabulary of the properties.                                           *)
(***************************************************************************)

\* The deny-list of the specification (section 4.3, rule 5).
DeniedKeywords ==
    { "INSERT", "UPDATE", "DELETE", "DROP", "TRUNCATE", "ALTER", "CREATE",
      "GRANT", "REVOKE", "EXECUTE", "CALL", "DO", "COPY", "VACUUM", "REINDEX",
      "BEGIN", "COMMIT", "ROLLBACK" }

\* Words of SQL that are not identifiers.
ReservedWords ==
    DeniedKeywords \cup
    { "SELECT", "WITH", "EXPLAIN", "FROM", "WHERE", "AS", "UNION", "ALL",
      "TABLE", "LIMIT", "OFFSET", "ORDER", "BY" }

QuotesBefore(s, i) == Cardinality({ j \in 1..(i - 1) : s[j] = "'" })

\* Position i lies inside a single-quoted string literal.
InStringLiteral(s, i) == s[i] # "'" /\ QuotesBefore(s, i) % 2 = 1

BalancedQuotes(s) == QuotesBefore(s, Len(s) + 1) % 2 = 0

\* A denied keyword stands at i as a whole word, in any letter case.
DeniedKeywordAt(s, i) ==
    /\ str_upper(s[i]) \in DeniedKeywords
    /\ WholeWordAt(s, i)

\* The text with the contents of its string literals left out.
RECURSIVE BlankLiterals(_, _)
BlankLiterals(s, inside) ==
    IF s = <<>> THEN <<>>
    ELSE IF Head(s) = "'" THEN <<"'">> \o BlankLiterals(Tail(s), ~inside)
    ELSE IF inside THEN BlankLiterals(Tail(s), inside)
    ELSE <<Head(s)>> \o BlankLiterals(Tail(s), inside)

\* The contents of the string literals of a text, in order.
RECURSIVE LiteralContents(_, _)
LiteralContents(s, inside) ==
    IF s = <<>> THEN <<>>
    ELSE IF Head(s) = "'" THEN <<"'">> \o LiteralContents(Tail(s), ~inside)
    ELSE IF inside THEN <<Head(s)>> \o LiteralContents(Tail(s), inside)
    ELSE LiteralContents(Tail(s), inside)

\* Leading whitespace and leading comments skipped.
RECURSIVE SkipLeading(_)
SkipLeading(s) ==
    IF s = <<>> THEN s
    ELSE IF IsSpace(Head(s)) THEN SkipLeading(Tail(s))
    ELSE IF PairAt(s, 1, "-", "-") THEN SkipLeading(FromNewline(s))
    ELSE IF PairAt(s, 1, "/", "*") /\ FirstClose(s, 3) # 0
    THEN SkipLeading(SubSeq(s, FirstClose(s, 3) + 2, Len(s)))
    ELSE s

\* The maximal run of word atoms a text starts with: its first word.
RECURSIVE WordRun(_)
WordRun(s) ==
    IF s = <<>> \/ ~IsWord(Head(s)) THEN <<>>
    ELSE <<str_upper(Head(s))>> \o WordRun(Tail(s))

\* The first keyword of a text, upper-cased; <<>> when the text does not
\* start with a word.
LeadingKeyword(s) == WordRun(SkipLeading(s))

ReadKeywords == { <<"SELECT">>, <<"WITH">>, <<"EXPLAIN">> }

Checked == pc \in {"checked", "kg_checked"}

(***************************************************************************)
(* Properties of the safety check.                                         *)
(***************************************************************************)

\* C1: a text that contains a denied keyword as a whole word outside a
\* string literal, at any position and in any letter case, is rejected by
\* ensure_safe_select.
C1_DeniedKeywordRejected ==
    ( /\ pc = "checked"
      /\ \E i \in 1..Len(text) :
            DeniedKeywordAt(text, i) /\ ~InStringLiteral(text, i) )
    => verdict.safe = FALSE

\* The texts an endpoint derives from a checked text before it executes it:
\* a page of it, its count query, or the text with a row limit.
RewritesOf(a) ==
    {a}
    \cup { add_pagination(a, p, n) : p \in Pages, n \in PageSizes }
    \cup { create_count_query(a) }
    \cup { add_row_limit(a, m) : m \in MaxRowsValues }
    \cup { kg_add_pagination(a, p, n) : p \in Pages, n \in PageSizes }
    \cup { kg_create_count_query(a) }

C3_LeadingKeywordGate ==
    (Checked /\ LeadingKeyword(text) \notin ReadKeywords)
    => verdict.safe = FALSE

\* C3 witness: a text that starts with an identifier followed by SELECT has
\* been checked and rejected for how it starts.
C3_Witness ==
    /\ pc = "checked"
    /\ text = <<" ", "t", " ", "SELECT">>
    /\ verdict = [safe |-> FALSE,
                  reason |-> Str(<<"SQL must start with SELECT, WITH, or EXPLAIN">>)]

\* A denied keyword occurs in the text, and only inside string literals
\* that hold nothing but words and blanks.
DeniedOnlyInLiterals(s) ==
    /\ BalancedQuotes(s)
    /\ \E i \in 1..Len(s) : DeniedKeywordAt(s, i) /\ InStringLiteral(s, i)
    /\ \A i \in 1..Len(s) :
          InStringLiteral(s, i) => (IsWord(s[i]) \/ s[i] = " ")
    /\ \A i \in 1..Len(s) :
          IsWord(s[i]) /\ str_upper(s[i]) \in DeniedKeywords => InStringLiteral(s, i)

\* C4: a denied keyword that occurs only inside a quoted string literal does
\* not cause rejection: a query that is accepted with the literal's contents
\* left out is accepted with them.
C4_KeywordInsideLiteralAccepted ==
    ( /\ pc = "checked"
      /\ DeniedOnlyInLiterals(text)
      /\ ensure_safe_select(BlankLiterals(text, FALSE)).safe )
    => verdict.safe = TRUE

\* At most one ';' outside string literals, with only whitespace after it.
SingleStatement(s) ==
    /\ BalancedQuotes(s)
    /\ \A i \in 1..Len(s) :
          (s[i] = ";" /\ ~InStringLiteral(s, i))
          => \A k \in (i + 1)..Len(s) : IsSpace(s[k])

\* An identifier directly followed by '(' that is not an allowed function.
UnknownFunctionAt(s, i) ==
    /\ i + 1 <= Len(s)
    /\ IsWord(s[i])
    /\ WordBoundaryBefore(s, i)
    /\ str_upper(s[i]) \notin ReservedWords
    /\ s[i + 1] = "("
    /\ ~InStringLiteral(s, i)
    /\ str_lower(s[i]) \notin ALLOWED_FUNCTIONS

HasCommentMarker(s) ==
    HasPair(s, "-", "-") \/ HasPair(s, "/", "*") \/ HasPair(s, "*", "/")

UnionThenSelect(s) ==
    \E i \in 1..Len(s) : \E j \in (i + 1)..Len(s) :
        str_upper(s[i]) = "UNION" /\ str_upper(s[j]) \in UnionFollowers

\* C5: a single-statement query that starts with SELECT, WITH or EXPLAIN and
\* contains no denied keyword, no unknown function, no comment marker and no
\* UNION followed by SELECT is accepted with safe = true and no reason.
C5_ReadOnlyStatementAccepted ==
    ( /\ pc = "checked"
      /\ SingleStatement(text)
      /\ LeadingKeyword(text) \in ReadKeywords
      /\ \A i \in 1..Len(text) : str_upper(text[i]) \notin DeniedKeywords
      /\ \A i \in 1..Len(text) : ~UnknownFunctionAt(text, i)
      /\ ~HasCommentMarker(text)
      /\ ~UnionThenSelect(text) )
    => verdict = [safe |-> TRUE, reason |-> None]

\* A ';' outside string literals separates a SELECT statement from a second
\* statement.
TwoStatements(s) ==
    \E i \in 1..Len(s) :
        /\ s[i] = ";"
        /\ ~InStringLiteral(s, i)
        /\ LeadingKeyword(SubSeq(s, 1, i - 1)) = <<"SELECT">>
        /\ \E k \in (i + 1)..Len(s) : IsWord(s[k])

MentionsMultipleStatements(reason) ==
    reason \in { Str(<<"Multiple statements not allowed (semicolon detected)">>),
                 Str(<<"Multiple SQL statements are not allowed">>) }

\* C6: a text of two statements separated by ';' is rejected, and the reason
\* returned says that multiple statements are not allowed.
C6_TwoStatementsReason ==
    (pc = "checked" /\ TwoStatements(text))
    => (verdict.safe = FALSE /\ MentionsMultipleStatements(verdict.reason))

\* C7: a query that calls a function whose lower-cased name is not in the
\* allowed-function set is rejected.
C7_UnknownFunctionRejected ==
    (pc = "checked" /\ \E i \in 1..Len(text) : UnknownFunctionAt(text, i))
    => verdict.safe = FALSE

(***************************************************************************)
(* Properties of the sanitizer.                                            *)
(***************************************************************************)

\* No '--' and no '/*' outside the string literals of a text.
NoCommentOutsideLiterals(s) ==
    \A i \in 1..Len(s) :
        (PairAt(s, i, "-", "-") \/ PairAt(s, i, "/", "*"))
        => (InStringLiteral(s, i) /\ InStringLiteral(s, i + 1))

\* C8: sanitize_sql never changes the contents of a quoted string literal: a
\* '--' or '/*' inside a literal is not taken for a comment opener, and a
\* query that holds such a literal is accepted after sanitizing.
C8_LiteralsSurviveSanitize ==
    /\ ( /\ pc \in {"sanitized", "sanitized_checked"}
         /\ BalancedQuotes(text)
         /\ NoCommentOutsideLiterals(text) )
       => LiteralContents(san, FALSE) = LiteralContents(text, FALSE)
    /\ ( /\ pc = "sanitized_checked"
         /\ text = <<"SELECT", " ", "'", "-", "-">> \o <<"x", "'">> )
       => verdict.safe = TRUE

\* C9: sanitize is idempotent: sanitize(sanitize(s)) = sanitize(s).
C9_SanitizeIdempotent ==
    pc \in {"resanitized", "kg_resanitized"} => san2 = san

\* C10: the output of sanitize_sql contains no comment marker: neither '--'
\* nor '/*' nor '*/'.
C10_NoCommentMarkerLeft ==
    pc = "sanitized" => ~HasCommentMarker(san)

(***************************************************************************)
(* Properties of sanitize-then-check.                                      *)
(***************************************************************************)

\* The first k atoms of s are a statement the check accepts, followed by
\* ' -- ' and text that stays on the same line.
HiddenInLineComment(s, k) ==
    /\ k + Len(CommentOpener) <= Len(s)
    /\ SubSeq(s, k + 1, k + Len(CommentOpener)) = CommentOpener
    /\ ensure_safe_select(SubSeq(s, 1, k)).safe
    /\ \A i \in (k + Len(CommentOpener) + 1)..Len(s) : s[i] # "\n"

\* Whitespace occurs in q only as single spaces between other atoms.
SingleSpaced(q) ==
    \A i \in 1..Len(q) :
        IsSpace(q[i]) =>
            /\ q[i] = " "
            /\ 1 < i /\ i < Len(q)
            /\ ~IsSpace(q[i + 1])

\* C11 as stated: for any statement q the check accepts, followed by ' -- '
\* and arbitrary text on the same line, sanitize_sql returns q and the check
\* of that output returns safe = true.
C11_CommentedInjectionNeutralized ==
    pc = "sanitized_checked" =>
        \A k \in 0..Len(text) :
            HiddenInLineComment(text, k) =>
                san = SubSeq(text, 1, k) /\ verdict.safe

\* C11 amended: the same for every accepted statement q in which whitespace
\* occurs only as single spaces between other atoms; sanitize_sql collapses
\* any other whitespace of q, so its output is then not q itself.
C11_SingleSpacedInjectionNeutralized ==
    pc = "sanitized_checked" =>
        \A k \in 0..Len(text) :
            HiddenInLineComment(text, k) /\ SingleSpaced(SubSeq(text, 1, k)) =>
                san = SubSeq(text, 1, k) /\ verdict.safe

\* C11 witness: 'SELECT t -- ;drop' has been sanitized to 'SELECT t' and
\* that output has been accepted.
C11_Witness ==
    /\ pc = "sanitized_checked"
    /\ text = <<"SELECT", " ", "t", " ", "-", "-", " ", ";", "drop">>
    /\ san = <<"SELECT", " ", "t">>
    /\ verdict.safe

(***************************************************************************)
(* Properties of the verdict.                                              *)
(***************************************************************************)

\* A check has returned.
Returned == pc \in {"checked", "sanitized_checked", "kg_checked"}

\* The Python string of a message is not empty.
NonEmptyMessage(r) ==
    /\ r # None
    /\ \E i \in 1..Len(r.parts) : Len(r.parts[i]) > 0

\* C12: every verdict returned by ensure_safe_select and by check_sql_safety
\* is (True, None) or (False, a non-empty reason): the reason is set if and
\* only if safe is false.
C12_ReasonIffUnsafe ==
    Returned =>
        \/ verdict.safe /\ verdict.reason = None
        \/ ~verdict.safe /\ NonEmptyMessage(verdict.reason)

\* C12 witness: ensure_safe_select has rejected 'UNION SELECT' on the path
\* of its third pattern, with the reason naming UNION.
C12_Witness ==
    /\ pc = "checked"
    /\ text = <<"UNION", " ", "SELECT">>
    /\ ~verdict.safe
    /\ verdict.reason = ForbiddenKeyword("UNION")

\* C13: the checks never raise, for the empty text and for texts with
\* unbalanced quotes as for any other: what they deliver is a returned
\* verdict, and a failure of the parser is turned into a rejection.
C13_NeverRaises ==
    /\ Returned => "exception" \notin DOMAIN verdict
    /\ "exception" \notin DOMAIN check_sql_safety(text, "raises")
    /\ ~check_sql_safety(text, "raises").safe
    /\ "exception" \notin DOMAIN ensure_safe_select(text)

\* C13 witness: the parser has failed on a text with an unbalanced quote and
\* is_safe_sql has returned a rejection.
C13_Witness ==
    /\ pc = "kg_checked"
    /\ text = <<"SELECT", "'">>
    /\ ~BalancedQuotes(text)
    /\ verdict = [safe |-> FALSE, reason |-> Str(<<"SQL parsing error: ", "e">>)]

\* Whole-word UNION at i, and a whole-word SELECT, INSERT, UPDATE or DELETE
\* anywhere after it.
UnionThenFollower(s) ==
    \E i \in 1..Len(s), j \in 1..Len(s) :
        /\ i < j
        /\ str_upper(s[i]) = "UNION" /\ WholeWordAt(s, i)
        /\ str_upper(s[j]) \in {"SELECT", "INSERT", "UPDATE", "DELETE"}
        /\ WholeWordAt(s, j)

\* C14: a text in which UNION is followed anywhere later by SELECT, INSERT,
\* UPDATE or DELETE is rejected by ensure_safe_select, whatever separates
\* the two keywords, line breaks included.
C14_UnionThenKeywordRejected ==
    pc = "checked" /\ UnionThenFollower(text) => ~verdict.safe

\* The reasons that say that the query is empty.
EmptyQueryReasons == { Str(<<"Empty SQL query">>) }

\* C15: for a text that is empty or only whitespace the checks return
\* safe = False with a reason saying that the query is empty.
C15_EmptyQueryReason ==
    Checked /\ strip(text) = <<>> =>
        ~verdict.safe /\ verdict.reason \in EmptyQueryReasons

\* The keywords a statement of C16 begins with.
StatementKeywords ==
    { "INSERT", "UPDATE", "DELETE", "DROP", "CREATE", "ALTER", "TRUNCATE",
      "GRANT", "REVOKE" }

\* The message contains the keyword.
Names(r, kw) ==
    /\ r # None
    /\ \E i \in 1..Len(r.parts) : r.parts[i] = kw

\* C16: for a statement that begins with INSERT, UPDATE, DELETE, DROP,
\* CREATE, ALTER, TRUNCATE, GRANT or REVOKE the checks return a reason that
\* contains that keyword.
C16_ReasonNamesKeyword ==
    Checked =>
        \A kw \in StatementKeywords :
            LeadingKeyword(text) = <<kw>> =>
                ~verdict.safe /\ Names(verdict.reason, kw)

(***************************************************************************)
(* Properties of the pagination rewriter.                                  *)
(***************************************************************************)

\* ' LIMIT page_size OFFSET (page - 1) * page_size'
Clause(r) ==
    <<" ", "LIMIT", " ", ToString(r.page_size), " ", "OFFSET", " ",
      ToString((r.page - 1) * r.page_size)>>

\* LIMIT or OFFSET stands at i as a keyword: a whole word outside string
\* literals.
PaginationKeywordAt(s, i) ==
    /\ str_upper(s[i]) \in {"LIMIT", "OFFSET"}
    /\ WholeWordAt(s, i)
    /\ ~InStringLiteral(s, i)

NoPaginationClause(s) == \A i \in 1..Len(s) : ~PaginationKeywordAt(s, i)

\* The letters 'limit' occur in the text.
ContainsLimitLetters(s) == \E i \in 1..Len(s) : str_upper(s[i]) = "LIMIT"

Paginated == pc \in {"paginated", "kg_paginated"}

\* C17: for a statement without a LIMIT or OFFSET clause (names and string
\* literals that contain the letters 'limit' are no clause) and without
\* trailing whitespace, add_pagination returns the statement, unchanged,
\* followed by ' LIMIT page_size OFFSET (page - 1) * page_size'.
C17_PaginationAppended ==
    Paginated /\ NoPaginationClause(text) /\ BalancedQuotes(text)
              /\ rstrip(text) = text =>
        paginated = text \o Clause(page_request)

Repaginated == pc \in {"repaginated", "kg_repaginated"}

\* What one call with the last request makes of the statement.
PaginatedOnce ==
    IF pc = "repaginated"
    THEN add_pagination(text, page_request.page, page_request.page_size)
    ELSE kg_add_pagination(text, page_request.page, page_request.page_size)

\* s ends with t.
EndsWith(s, t) ==
    /\ Len(t) <= Len(s)
    /\ SubSeq(s, Len(s) - Len(t) + 1, Len(s)) = t

\* s without its last n atoms.
DropLast(s, n) == SubSeq(s, 1, Len(s) - n)

\* s ends with the clause of r and, before it, with no clause of any request.
EndsWithOneClause(s, r) ==
    /\ EndsWith(s, Clause(r))
    /\ \A r1 \in PageRequests : ~EndsWith(DropLast(s, Len(Clause(r))), Clause(r1))

\* How often OFFSET occurs in the text.
OffsetCount(s) == Cardinality({ i \in 1..Len(s) : str_upper(s[i]) = "OFFSET" })

ParenDepth(s, i) ==
    Cardinality({ j \in 1..(i - 1) : s[j] = "(" }) -
    Cardinality({ j \in 1..(i - 1) : s[j] = ")" })

\* A LIMIT keyword stands at i inside the parentheses that close at j.
SubqueryLimit(s, i, j) ==
    /\ i < j
    /\ str_upper(s[i]) = "LIMIT" /\ WholeWordAt(s, i) /\ ~InStringLiteral(s, i)
    /\ s[j] = ")" /\ ~InStringLiteral(s, j)
    /\ \A k \in i..j : ParenDepth(s, k) >= 1

\* C19: a LIMIT inside a parenthesized subquery is left untouched by
\* add_pagination: the text up to the closing parenthesis of the subquery
\* is in the output as it was.
C19_SubqueryLimitUntouched ==
    Paginated =>
        \A i \in 1..Len(text), j \in 1..Len(text) :
            SubqueryLimit(text, i, j) /\ BalancedQuotes(text) =>
                /\ j <= Len(paginated)
                /\ SubSeq(paginated, 1, j) = SubSeq(text, 1, j)

\* 'SELECT COUNT(*) AS total FROM (<sql>) AS count_subquery', the letter
\* case of AS, the name of the subquery and the presence of 'AS total' left
\* open.
CountWrappers(sql) ==
    { <<"SELECT", " ", "COUNT", "(", "*", ")">> \o total \o
      <<" ", "FROM", " ", "(">> \o sql \o <<")", " ", as, " ", name>> :
        total \in { <<>>, <<" ", "AS", " ", "total">>, <<" ", "as", " ", "total">> },
        as \in { "AS", "as" },
        name \in { "count_subquery", "count_query" } }

\* The first k atoms of s are a statement without ORDER BY, LIMIT or OFFSET
\* and the rest of s is its trailing ORDER BY and LIMIT / OFFSET clauses.
EndsInClauses(s, k) ==
    /\ SubSeq(s, k + 1, Len(s)) \in ClauseTails
    /\ \A i \in 1..k : str_upper(s[i]) \notin {"ORDER", "LIMIT", "OFFSET"}
    /\ rstrip(SubSeq(s, 1, k)) = SubSeq(s, 1, k)

Counted == pc \in {"counted", "kg_counted"}

\* C20: the count query of a statement is 'SELECT COUNT(*) AS total FROM
\* (<sql'>) AS count_subquery', sql' the statement without its trailing
\* ORDER BY and LIMIT / OFFSET clauses and otherwise unchanged: no ORDER BY,
\* no LIMIT and no fragment of either clause is left in it.
C20_CountQueryWrapsStrippedStatement ==
    Counted =>
        \A k \in 0..Len(text) :
            EndsInClauses(text, k) =>
                count_query \in CountWrappers(SubSeq(text, 1, k))

(***************************************************************************)
(* Properties of validate_pagination_params.                               *)
(***************************************************************************)

Validated == pc \in {"validated", "kg_validated"}

Extracted == pc = "extracted"

HasFence(s) == \E i \in 1..Len(s) : FenceAt(s, i)

HasBackquote(s) == \E i \in 1..Len(s) : s[i] = Backquote

\* The text is pre, a code block around body, post; the block is the first
\* fence of the text and body holds no backquote.
BlockAround(s, pre, body, tagged, post) ==
    /\ s = pre \o Fenced(body, tagged) \o post
    /\ ~HasBackquote(pre)
    /\ ~HasBackquote(body)

\* The whole text trimmed, or None when nothing is left.
TrimmedOrNone(s) == IF strip(s) = <<>> THEN None ELSE Str(strip(s))

\* What the function returns on a text with no backquote and on a text with
\* one well-formed block.
ExtractsBlockOrText ==
    /\ ~HasBackquote(text) => extracted = TrimmedOrNone(text)
    /\ \A pre \in Prologues, body \in BlockBodies, tagged \in BOOLEAN, post \in Epilogues :
          BlockAround(text, pre, body, tagged, post) => extracted = Str(strip(body))

\* C22: extract_sql_from_code_block returns the trimmed content of the
\* first fenced block when the text contains one, otherwise the trimmed whole
\* text when it is non-empty, otherwise None; the fence markers themselves
\* are never part of the result.
C22_FencesNeverReturned ==
    Extracted =>
        /\ ExtractsBlockOrText
        /\ extracted # None => ~HasFence(extracted.parts)

\* C22 (amended): on a text with no backquote the function returns the
\* trimmed whole text, or None when that is empty; on a text whose first
\* fence opens a block (fence, optional sql, newline, content, newline,
\* fence) with no backquote in the content it returns the trimmed content,
\* with no fence marker in it; on a text whose fences form no such block it
\* returns the trimmed whole text, fence markers included.
C22_ExtractsBlockOrText ==
    Extracted =>
        /\ ExtractsBlockOrText
        /\ (\A i \in 1..Len(text) : CodeBlockAt(text, i) = <<0, 0>>) =>
              extracted = TrimmedOrNone(text)
        /\ (\E pre \in Prologues, body \in BlockBodies, tagged \in BOOLEAN, post \in Epilogues :
               BlockAround(text, pre, body, tagged, post)) =>
              ~HasFence(extracted.parts)

\* C22: the content of a block that follows a line of prose was returned.
C22_Witness ==
    /\ Extracted
    /\ \E body \in BlockBodies :
          /\ BlockAround(text, <<"t", "\n">>, body, TRUE, <<>>)
          /\ strip(body) # <<>>
          /\ extracted = Str(strip(body))

(***************************************************************************)
(* Properties of the order of the steps of a request.                      *)
(***************************************************************************)

Responded == pc = "responded"

\* Call k hands a text to the database that was rewritten, at call p, from a
\* text the check accepted at call j, which sanitize_sql returned at call i,
\* with i < j < p < k.
SanitizedCheckedRewritten(k) ==
    \E i \in 1..k, j \in 1..k, p \in 1..k :
        /\ i < j /\ j < p /\ p < k
        /\ calls[i].call = "sanitize"
        /\ calls[j].call = "check" /\ calls[j].safe /\ calls[j].on = calls[i].out
        /\ calls[p].call = "rewrite" /\ calls[p].on = calls[j].on
        /\ calls[p].out = calls[k].on

\* C23: in every request path that executes SQL the steps happen in the
\* order sanitize, safety check, pagination rewrite, execution: the check
\* runs on the sanitized text and no rewrite or execution happens before the
\* check has accepted.
C23_SanitizeCheckRewriteExecute ==
    Responded =>
        \A k \in 1..Len(calls) :
            /\ calls[k].call \in {"rewrite", "execute"} =>
                  \E j \in 1..(k - 1) : calls[j].call = "check" /\ calls[j].safe
            /\ calls[k].call = "execute" => SanitizedCheckedRewritten(k)

(***************************************************************************)
(* More properties of the safety check.                                    *)
(***************************************************************************)

Semicolons(s) == { i \in 1..Len(s) : s[i] = ";" }

\* The only ';' of the text is a trailing one outside string literals, or
\* stands inside a string literal.
OneHarmlessSemicolon(s) ==
    /\ BalancedQuotes(s)
    /\ Cardinality(Semicolons(s)) = 1
    /\ \A i \in Semicolons(s) :
          \/ InStringLiteral(s, i)
          \/ \A k \in (i + 1)..Len(s) : IsSpace(s[k])

\* C24: the multiple-statements rule fires only for a second statement: a
\* query whose only ';' outside string literals is a single one followed by
\* nothing but whitespace, and a query whose only ';' is inside a string
\* literal, are not rejected for multiple statements.
C24_SingleSemicolonNotMultiple ==
    (Checked /\ OneHarmlessSemicolon(text))
    => ~MentionsMultipleStatements(verdict.reason)

CaseChecked == pc \in {"case_checked", "kg_case_checked"}

\* C25: the safety verdict does not depend on letter case: for every query s
\* and every variant s' that differs from s only in the case of its letters,
\* the check returns the same safe flag for s and s'.
C25_VerdictIgnoresCase ==
    CaseChecked => variant_verdict.safe = verdict.safe

\* C25: a query with a lower-case denied keyword was rejected, and so was
\* its variant in mixed and upper case.
C25_Witness ==
    /\ pc = "case_checked"
    /\ variant # text
    /\ text = <<"select", " ", "drop">>
    /\ variant = <<"SeLeCt", " ", "DROP">>
    /\ ~verdict.safe /\ ~variant_verdict.safe

(***************************************************************************)
(* Properties of concurrent requests.                                      *)
(***************************************************************************)

\* Every verdict returned for one text by one package, to any request and at
\* any call, is the same.
SameTextSameVerdict ==
    \A r \in RequestIds, q \in RequestIds :
        (requests[r].package = requests[q].package /\ requests[r].text = requests[q].text)
        => \A i \in 1..Len(requests[r].verdicts), j \in 1..Len(requests[q].verdicts) :
              requests[r].verdicts[i] = requests[q].verdicts[j]

CappedAt(sql, n) ==
    /\ Len(sql) >= 4
    /\ IsSpace(sql[Len(sql) - 3])
    /\ str_upper(sql[Len(sql) - 2]) = "LIMIT"
    /\ sql[Len(sql) - 1] = " "
    /\ \E k \in 0..n : sql[Len(sql)] = ToString(k)

\* C27: the SQL executed by POST /download-csv is always capped at max_rows:
\* for every accepted query, whether or not it already contains the word
\* LIMIT, the executed statement returns at most request.max_rows rows.
C27_DownloadCapped ==
    (Responded /\ response.endpoint = "trendsql /download-csv")
    => \A i \in 1..Len(executed) : CappedAt(executed[i], max_rows)

(***************************************************************************)
(* Properties of trendsql_kg POST /generate-sql.                           *)
(***************************************************************************)

Last(seq) == seq[Len(seq)]

\* C28: a failed execution triggers at most one call to improve_sql and at
\* most one re-execution: a request never runs the paginated query more than
\* twice, and it ends with a response whose executed flag is true only if
\* the last execution attempt raised no error.
C28_RetryOnceExecutedFlag ==
    (Responded /\ response.endpoint = "trendsql_kg /generate-sql" /\ response.status = 200)
    => /\ sql_response.improve_calls <= 1
       /\ Len(sql_response.attempts) <= 2
       /\ sql_response.executed => (sql_response.attempts # <<>> /\ ~Last(sql_response.attempts).failed)

(***************************************************************************)
(* Properties of ingest_data.                                              *)
(***************************************************************************)

Count(events, e) == Cardinality({ k \in 1..Len(events) : events[k] = e })

Writes(n) == [k \in 1..n |-> "write"]

Total(counts) ==
    counts.inserted + counts.updated + counts.related_inserted + counts.related_updated

\* A commit is the only one and follows the writes of all fetched rows.
CommitsOnceAfterAllRows ==
    Count(ingest.events, "commit") > 0
    => /\ Count(ingest.events, "commit") = 1
       /\ SubSeq(ingest.events, 1, Len(ingest.data) + 1) = Writes(Len(ingest.data)) \o <<"commit">>

\* A row whose write raised: rollback, no commit, the exception re-raised,
\* and no row of the call stored.
RolledBackOnWriteError ==
    (ingest.pc = "done" /\ ingest.error = "write")
    => /\ Last(ingest.events) = "rollback"
       /\ Count(ingest.events, "commit") = 0
       /\ ingest.result = "raised"
       /\ ingest.stored = 0

\* A successful call committed once, after all rows, and counted every row.
ReturnedAfterCommit ==
    ingest.result = "returned"
    => /\ ingest.events = Writes(Len(ingest.data)) \o <<"commit">>
       /\ ingest.stored = Len(ingest.data)
       /\ Total(ingest.counts) = Len(ingest.data)

\* C29 as stated: ingest_data commits exactly once and only after every
\* fetched row has been written; if writing any row raises, it rolls back,
\* never commits, and re-raises; on success the returned inserted and updated
\* counts sum to the number of rows fetched.
C29_AllOrNothing ==
    /\ CommitsOnceAfterAllRows
    /\ RolledBackOnWriteError
    /\ ReturnedAfterCommit

\* C29 amended: as C29, except that ExplodingTopicsConnector.ingest_data with
\* no fetched row returns zero counts without a commit; every other
\* successful call commits exactly once, after every row has been written.
C29_AllOrNothingUnlessNoData ==
    /\ CommitsOnceAfterAllRows
    /\ RolledBackOnWriteError
    /\ IF ingest.connector = "ExplodingTopicsConnector" /\ ingest.data = <<>>
       THEN ingest.result = "returned"
            => (ingest.events = <<>> /\ ingest.stored = 0 /\ Total(ingest.counts) = 0)
       ELSE ReturnedAfterCommit

\* C29 witness: the second of two rows raised after the first was written;
\* the call rolled back and raised, and nothing is stored.
C29_Witness ==
    /\ ingest.pc = "done"
    /\ ingest.error = "write"
    /\ ingest.events = <<"write", "write_raised", "rollback">>
    /\ ingest.result = "raised"
    /\ ingest.stored = 0

(***************************************************************************)
(* Parenthesis balance under the rewriters.                                *)
(***************************************************************************)

\* Every closing parenthesis of s closes an open one and none stays open.
BalancedParentheses(s) ==
    /\ \A i \in 1..(Len(s) + 1) : ParenDepth(s, i) >= 0
    /\ ParenDepth(s, Len(s) + 1) = 0

\* C30: the textual rewriters preserve parenthesis balance: for a statement
\* whose parentheses are balanced, the outputs of add_pagination (applied
\* once or to its own output) and of the count-query builder, in trendsql
\* and in trendsql_kg, have balanced parentheses too.
C30_RewritersKeepParenthesesBalanced ==
    BalancedParentheses(text) =>
        /\ pc \in {"paginated", "kg_paginated"} => BalancedParentheses(paginated)
        /\ pc \in {"repaginated", "kg_repaginated"} => BalancedParentheses(repaginated)
        /\ pc \in {"counted", "kg_counted"} => BalancedParentheses(count_query)

====
